---- MODULE Spec2Model ----
(***************************************************************************)
(* A model of the Redis-compatible server of this repository: the RESP     *)
(* request parser and encoder, the HashTable keyspace (strings with lazy   *)
(* expiry, streams), the MasterServer command handlers (SET, GET, TYPE,    *)
(* XADD, REPLCONF, PSYNC, WAIT, ...) with write propagation, and the       *)
(* SlaveServer handshake and master-buffer processing.                     *)
(*                                                                         *)
(* Text is modelled as sequences of one-character strings, exactly the     *)
(* JavaScript strings the handlers work on (socket data is ASCII here, so  *)
(* data.toString() yields one character per byte and String.length is the  *)
(* byte length).  Sockets are FIFO queues of the segments written to them. *)
(***************************************************************************)
EXTENDS Integers, Sequences, FiniteSets, TLC

VARIABLES
    master,   \* the MasterServer object, its sockets' written data, its timers
    slave,    \* replica id -> the SlaveServer object of that replica
    s2m,      \* replica id -> segments written by the replica, not yet read by the master
    now,      \* Date.now()
    sent,     \* what the clients have sent so far: counters, and the last frame;
              \* for a client that sends a byte stream in pieces: the stream's
              \* frames (script), the bytes not yet sent (left), and what
              \* the parser has returned so far (emitted)
    replica   \* the follower of replication.js: replicaConnection's stage, the
              \* cache and counter of its handlers, what it wrote to its socket

vars == <<master, slave, s2m, now, sent, replica>>

(***************************************************************************)
(* Bounds of the model.                                                    *)
(***************************************************************************)
MaxSets == 2        \* SET commands sent by clients in a replication run
MaxWaits == 2       \* WAIT commands sent by clients in a replication run
MaxXadds == 3       \* XADD commands sent by clients in a stream run
MaxTicks == 3       \* clock steps in a run
MaxReads == 2       \* GET / TYPE commands sent by clients in an expiry run
StartTime == 10     \* Date.now() at start-up
MaxFrames == 3      \* SET and WAIT commands together in a replication run
MaxDays == 1        \* whole days the clock may jump in a run
MaxReplXadds == 1   \* XADD commands sent by clients in a run with replicas
MaxCoalesce == 2    \* written segments a socket delivers in one data event
MaxUpstream == 3    \* frames streamed to the replicas after their handshake
MaxAnswers == 5     \* answers and frames a follower receives in a handshake run
MaxCloseSets == 1   \* SET commands sent by clients in a run with closing connections
MaxCloseWaits == 1  \* WAIT commands sent by clients in a run with closing connections

(***************************************************************************)
(* JavaScript strings.                                                     *)
(***************************************************************************)
CR == "\r"
LF == "\n"
CRLF == <<CR, LF>>

Digits == <<"0", "1", "2", "3", "4", "5", "6", "7", "8", "9">>
UpperCase == <<"A", "B", "C", "D", "E", "F", "G", "H", "I", "J", "K", "L", "M",
               "N", "O", "P", "Q", "R", "S", "T", "U", "V", "W", "X", "Y", "Z">>
LowerCase == <<"a", "b", "c", "d", "e", "f", "g", "h", "i", "j", "k", "l", "m",
               "n", "o", "p", "q", "r", "s", "t", "u", "v", "w", "x", "y", "z">>

\* The characters of the model in the order of their character codes.
CodeOrder == <<LF, CR, " ", "$", "*", "+", "-">> \o Digits \o <<":", "?">>
             \o UpperCase \o LowerCase

Range(s) == {s[i] : i \in DOMAIN s}
DigitSet == Range(Digits)
UpperSet == Range(UpperCase)
LowerSet == Range(LowerCase)
IsDigit(c) == c \in DigitSet
Min(a, b) == IF a < b THEN a ELSE b

CharCode(c) == CHOOSE i \in DOMAIN CodeOrder : CodeOrder[i] = c
DigitTable == [c \in DigitSet |-> (CHOOSE i \in DOMAIN Digits : Digits[i] = c) - 1]
DigitVal(c) == DigitTable[c]

\* The values JavaScript yields where a string or a number is missing.
Undefined == <<"undefined">>
NaN == -1
NaNText == <<"N", "a", "N">>

\* String.prototype.toLowerCase
LowerTable == [c \in UpperSet |-> LowerCase[CHOOSE i \in DOMAIN UpperCase : UpperCase[i] = c]]
LowerChar(c) == IF c \in UpperSet THEN LowerTable[c] ELSE c
ToLowerCase(s) == [i \in DOMAIN s |-> LowerChar(s[i])]

\* String.prototype.slice(a, b) for a, b >= 0 or NaN (0-based, end exclusive,
\* clipped; NaN counts as 0).
Slice(s, a, b) ==
    SubSeq(s, (IF a = NaN THEN 0 ELSE a) + 1, IF b = NaN THEN 0 ELSE Min(b, Len(s)))
SliceFrom(s, a) == SubSeq(s, (IF a = NaN THEN 0 ELSE a) + 1, Len(s))

\* a < b on two strings: by character code, a proper prefix being smaller;
\* a comparison with undefined is false.
RECURSIVE StrLess(_, _)
StrLess(a, b) ==
    IF a = Undefined \/ b = Undefined THEN FALSE
    ELSE IF b = <<>> THEN FALSE
    ELSE IF a = <<>> THEN TRUE
    ELSE IF a[1] # b[1] THEN CharCode(a[1]) < CharCode(b[1])
    ELSE StrLess(Tail(a), Tail(b))
StrLessEq(a, b) ==
    IF a = Undefined \/ b = Undefined THEN FALSE ELSE a = b \/ StrLess(a, b)

\* `${n}` for a number n.
RECURSIVE NumText(_)
NumText(n) ==
    IF n = NaN THEN NaNText
    ELSE IF n < 10 THEN <<Digits[n + 1]>>
    ELSE NumText(n \div 10) \o <<Digits[(n % 10) + 1]>>

\* parseInt(s, 10): the value of the leading decimal digits, NaN without any.
RECURSIVE ParseDigits(_, _)
ParseDigits(s, acc) ==
    IF s = <<>> \/ ~IsDigit(s[1]) THEN acc
    ELSE ParseDigits(Tail(s), acc * 10 + DigitVal(s[1]))
ParseInt(s) ==
    IF s = Undefined \/ s = <<>> \/ ~IsDigit(s[1]) THEN NaN ELSE ParseDigits(s, 0)

\* String.prototype.split("-")
RECURSIVE SplitDash(_, _)
SplitDash(s, cur) ==
    IF s = <<>> THEN <<cur>>
    ELSE IF s[1] = "-" THEN <<cur>> \o SplitDash(Tail(s), <<>>)
    ELSE SplitDash(Tail(s), Append(cur, s[1]))
Split(s) == SplitDash(s, <<>>)
At(parts, i) == IF i + 1 \in DOMAIN parts THEN parts[i + 1] ELSE Undefined

RECURSIVE Concat(_)
Concat(ss) == IF ss = <<>> THEN <<>> ELSE Head(ss) \o Concat(Tail(ss))

(***************************************************************************)
(* Encoder                                                                 *)
(***************************************************************************)
CreateSimpleString(s) == <<"+">> \o s \o CRLF
CreateBulkString(s) == <<"$">> \o NumText(Len(s)) \o CRLF \o s \o CRLF
NullBulkString == <<"$", "-", "1">> \o CRLF
\* createBulkString(arr) for an array of objects: arr.length is the number of
\* elements, and `${arr}` joins "[object Object]" for each with ",".
ObjectText == <<"[", "o", "b", "j", "e", "c", "t", " ", "O", "b", "j", "e", "c", "t", "]">>
RECURSIVE JoinObjects(_)
JoinObjects(arr) ==
    IF arr = <<>> THEN <<>>
    ELSE IF Len(arr) = 1 THEN ObjectText
    ELSE ObjectText \o <<",">> \o JoinObjects(Tail(arr))
CreateBulkStringOfArray(arr) ==
    <<"$">> \o NumText(Len(arr)) \o CRLF \o JoinObjects(arr) \o CRLF
CreateArray(arr) == <<"*">> \o NumText(Len(arr)) \o CRLF \o Concat(arr)
CreateInteger(n) == <<":">> \o NumText(n) \o CRLF
CreateSimpleError(s) == <<"-">> \o s \o CRLF

\* A request as a client library encodes it: an array of bulk strings.
Request(args) == CreateArray([i \in DOMAIN args |-> CreateBulkString(args[i])])

(***************************************************************************)
(* RequestParser                                                           *)
(*   A parse step works on (request, cursor); Thrown stands for an         *)
(*   exception raised inside parse()'s try block.                          *)
(***************************************************************************)
Thrown == [thrown |-> TRUE]

\* readNum: accumulate digits up to "\r", then skip "\r\n".
RECURSIVE ReadNumFrom(_, _, _)
ReadNumFrom(request, cursor, num) ==
    IF cursor >= Len(request) THEN Thrown
    ELSE IF request[cursor + 1] = CR
         THEN [thrown |-> FALSE, num |-> num, cursor |-> cursor + 2]
    ELSE ReadNumFrom(request, cursor + 1,
                     IF num = NaN \/ ~IsDigit(request[cursor + 1]) THEN NaN
                     ELSE num * 10 + DigitVal(request[cursor + 1]))
ReadNum(request, cursor) == ReadNumFrom(request, cursor, 0)

\* getString without the two characters that end a bulk string: the cursor
\* stops at the "\r" after the string.
GetStringNoSkip(request, cursor, lenOfString) ==
    IF lenOfString = NaN
    THEN [thrown |-> FALSE, string |-> <<>>, cursor |-> NaN]
    ELSE IF Len(request) < cursor + lenOfString THEN [thrown |-> TRUE]
    ELSE [thrown |-> FALSE,
          string |-> Slice(request, cursor, cursor + lenOfString),
          cursor |-> cursor + lenOfString]

\* getString: the next lenOfString characters; the cursor moves past them and
\* past two more characters, whether or not those have arrived.
GetString(request, cursor, lenOfString) ==
    IF lenOfString = NaN
    THEN [thrown |-> FALSE, string |-> <<>>, cursor |-> NaN]
    ELSE IF Len(request) < cursor + lenOfString THEN Thrown
    ELSE [thrown |-> FALSE,
          string |-> Slice(request, cursor, cursor + lenOfString),
          cursor |-> cursor + lenOfString + 2]

ReadBulkString(request, cursor) ==
    IF cursor = NaN \/ cursor >= Len(request) THEN Thrown
    ELSE IF request[cursor + 1] # "$" THEN Thrown
    ELSE LET n == ReadNum(request, cursor + 1) IN
         IF n.thrown THEN Thrown ELSE GetString(request, n.cursor, n.num)

RECURSIVE ReadArgs(_, _, _, _)
ReadArgs(request, cursor, left, args) ==
    IF left = 0 THEN [thrown |-> FALSE, args |-> args, cursor |-> cursor]
    ELSE LET b == ReadBulkString(request, cursor) IN
         IF b.thrown THEN Thrown
         ELSE ReadArgs(request, b.cursor, left - 1, Append(args, b.string))

\* parse: one request from the cursor on; on an exception the cursor is rolled
\* back and no arguments are returned.  currentRequest is the consumed slice.
Parse(request, startCursor) ==
    LET body ==
            IF startCursor = NaN \/ startCursor >= Len(request) THEN Thrown
            ELSE IF request[startCursor + 1] # "*" THEN Thrown
            ELSE LET n == ReadNum(request, startCursor + 1) IN
                 IF n.thrown THEN Thrown
                 ELSE IF n.num = NaN
                      THEN [thrown |-> FALSE, args |-> <<>>, cursor |-> n.cursor]
                 ELSE ReadArgs(request, n.cursor, n.num, <<>>)
        cursor == IF body.thrown THEN startCursor ELSE body.cursor
    IN [args |-> IF body.thrown THEN <<>> ELSE body.args,
        cursor |-> cursor,
        currentRequest |-> Slice(request, startCursor, cursor)]

\* getRemainingRequest
GetRemainingRequest(request, cursor) == SliceFrom(request, cursor)

(***************************************************************************)
(* JavaScript objects (stream entries): the properties in enumeration      *)
(* order, as <<name, value>> pairs.  Setting an existing property keeps    *)
(* its place; a new array-index name ("0", "7", "12") goes before the      *)
(* other names, in numeric order; any other new name goes last.            *)
(***************************************************************************)
IsIndexName(k) ==
    /\ k # <<>>
    /\ \A i \in DOMAIN k : IsDigit(k[i])
    /\ (Len(k) > 1 => k[1] # "0")
HasProp(obj, k) == \E i \in DOMAIN obj : obj[i][1] = k
ObjGet(obj, k) ==
    IF HasProp(obj, k) THEN obj[CHOOSE i \in DOMAIN obj : obj[i][1] = k][2]
    ELSE Undefined
ObjSet(obj, k, v) ==
    IF HasProp(obj, k)
    THEN [i \in DOMAIN obj |-> IF obj[i][1] = k THEN <<k, v>> ELSE obj[i]]
    ELSE IF IsIndexName(k)
    THEN LET before == SelectSeq(obj, LAMBDA p :
                           IsIndexName(p[1]) /\ ParseInt(p[1]) < ParseInt(k))
             after == SelectSeq(obj, LAMBDA p :
                           ~(IsIndexName(p[1]) /\ ParseInt(p[1]) < ParseInt(k)))
         IN before \o <<<<k, v>>>> \o after
    ELSE Append(obj, <<k, v>>)

IdName == <<"i", "d">>
Star == <<"*">>
Dash == <<"-">>

(***************************************************************************)
(* HashTable: key -> { value, expiry, type }.  t is Date.now().            *)
(***************************************************************************)
DayMs == 86400000

MapSet(map, key, entry) ==
    [k \in DOMAIN map \cup {key} |-> IF k = key THEN entry ELSE map[k]]
MapDelete(map, key) == [k \in DOMAIN map \ {key} |-> map[k]]

NumAdd(a, b) == IF a = NaN \/ b = NaN THEN NaN ELSE a + b

InsertKeyWithTimeStamp(map, key, value, timestamp) ==
    MapSet(map, key, [value |-> value, expiry |-> timestamp, type |-> "string"])

\* expiry: the text of the PX argument
InsertWithExpiry(map, key, value, expiry, t) ==
    InsertKeyWithTimeStamp(map, key, value, NumAdd(ParseInt(expiry), t))

Insert(map, key, value, t) ==
    InsertKeyWithTimeStamp(map, key, value, DayMs + t)

\* has: an entry whose expiry lies before now is deleted.  A stream entry has
\* no expiry (undefined < now is false), nor has NaN.
Expired(entry, t) ==
    entry.type = "string" /\ entry.expiry # NaN /\ entry.expiry < t
HasNoReap(map, key, t) ==
    IF key \notin DOMAIN map THEN [map |-> map, has |-> FALSE]
    ELSE [map |-> map, has |-> ~Expired(map[key], t)]
Has(map, key, t) ==
    IF key \notin DOMAIN map THEN [map |-> map, has |-> FALSE]
    ELSE IF Expired(map[key], t) THEN [map |-> MapDelete(map, key), has |-> FALSE]
    ELSE [map |-> map, has |-> TRUE]

\* get: found = FALSE stands for null
Get(map, key, t) ==
    LET h == Has(map, key, t) IN
    [map |-> h.map, found |-> h.has,
     value |-> IF h.has THEN h.map[key].value ELSE <<>>]

GetType(map, key, t) ==
    LET h == Has(map, key, t) IN
    [map |-> h.map, found |-> h.has,
     type |-> IF h.has THEN h.map[key].type ELSE "null"]

\* insertStream(key, value): result "id" with the entry's ID, "null" for a
\* rejected ID, "throw" for a TypeError (the key holds a string, whose value
\* has no entries to read and no push).
StreamRejectAuto(ms, lastMs) == StrLess(ms, lastMs)
StreamRejectExplicit(ms, seq, lastMs, lastSeq) ==
    \/ StrLess(ms, lastMs)
    \/ ms = lastMs /\ StrLessEq(seq, lastSeq)

InsertStream(map, key, value, t) ==
    LET m1 == IF key \notin DOMAIN map
              THEN MapSet(map, key, [value |-> <<>>, type |-> "stream"])
              ELSE map
        existingValue == m1[key]
        entries == existingValue.value
        id0 == ObjGet(value, IdName)
        currentId == IF id0 = Star THEN NumText(t) \o Dash \o Star ELSE id0
        currentIdMillis == At(Split(currentId), 0)
        currentIdSequence == At(Split(currentId), 1)
        lastId == Split(ObjGet(entries[Len(entries)], IdName))
        lastIdMilisecond == At(lastId, 0)
        lastIdSequence == At(lastId, 1)
        Pushed(v) == MapSet(m1, key, [existingValue EXCEPT !.value = Append(entries, v)])
    IN
    IF existingValue.type # "stream" \/ id0 = Undefined
    THEN [map |-> m1, result |-> "throw", id |-> <<>>]
    ELSE IF currentIdSequence = Star
    THEN IF Len(entries) = 0
         THEN LET newId == currentIdMillis \o Dash \o
                           (IF currentIdMillis = <<"0">> THEN <<"1">> ELSE <<"0">>)
              IN [map |-> Pushed(ObjSet(value, IdName, newId)),
                  result |-> "id", id |-> newId]
         ELSE IF StreamRejectAuto(currentIdMillis, lastIdMilisecond)
         THEN [map |-> m1, result |-> "null", id |-> <<>>]
         ELSE LET newId == currentIdMillis \o Dash \o
                           (IF currentIdMillis = lastIdMilisecond
                            THEN NumText(NumAdd(ParseInt(lastIdSequence), 1))
                            ELSE <<"0">>)
              IN [map |-> Pushed(ObjSet(value, IdName, newId)),
                  result |-> "id", id |-> newId]
    ELSE IF Len(entries) # 0
            /\ StreamRejectExplicit(currentIdMillis, currentIdSequence,
                                    lastIdMilisecond, lastIdSequence)
    THEN [map |-> m1, result |-> "null", id |-> <<>>]
    ELSE [map |-> Pushed(value), result |-> "id", id |-> currentId]

(***************************************************************************)
(* Connections, and the things written on them.                            *)
(***************************************************************************)
Clients == {"c1"}
Replicas == {"r1", "r2"}
Conns == Clients \cup Replicas

W_SET == <<"S", "E", "T">>
W_GET == <<"G", "E", "T">>
W_TYPE == <<"T", "Y", "P", "E">>
W_WAIT == <<"W", "A", "I", "T">>
W_XADD == <<"X", "A", "D", "D">>
W_XRANGE == <<"X", "R", "A", "N", "G", "E">>
W_XREAD == <<"X", "R", "E", "A", "D">>
W_BLOCK == <<"B", "L", "O", "C", "K">>
W_STREAMS == <<"S", "T", "R", "E", "A", "M", "S">>
W_PING == <<"P", "I", "N", "G">>
W_PSYNC == <<"P", "S", "Y", "N", "C">>
W_REPLCONF == <<"R", "E", "P", "L", "C", "O", "N", "F">>
W_GETACK == <<"G", "E", "T", "A", "C", "K">>
W_ACK == <<"A", "C", "K">>
W_PX == <<"P", "X">>
T_OK == <<"O", "K">>
T_PONG == <<"P", "O", "N", "G">>
T_FULLRESYNC == <<"F", "U", "L", "L", "R", "E", "S", "Y", "N", "C">>
T_none == <<"n", "o", "n", "e">>
T_string == <<"s", "t", "r", "i", "n", "g">>
T_stream == <<"s", "t", "r", "e", "a", "m">>

ErrXaddZero ==
    <<"E", "R", "R", " ", "T", "h", "e", " ", "I", "D", " ", "s", "p", "e", "c",
      "i", "f", "i", "e", "d", " ", "i", "n", " ", "X", "A", "D", "D", " ", "m",
      "u", "s", "t", " ", "b", "e", " ", "g", "r", "e", "a", "t", "e", "r", " ",
      "t", "h", "a", "n", " ", "0", "-", "0">>
ErrXaddSmall ==
    <<"E", "R", "R", " ", "T", "h", "e", " ", "I", "D", " ", "s", "p", "e", "c",
      "i", "f", "i", "e", "d", " ", "i", "n", " ", "X", "A", "D", "D", " ", "i",
      "s", " ", "e", "q", "u", "a", "l", " ", "o", "r", " ", "s", "m", "a", "l",
      "l", "e", "r", " ", "t", "h", "a", "n", " ", "t", "h", "e", " ", "t", "a",
      "r", "g", "e", "t", " ", "s", "t", "r", "e", "a", "m", " ", "t", "o", "p",
      " ", "i", "t", "e", "m">>

MasterReplId ==
    <<"8", "3", "7", "1", "b", "4", "f", "b", "1", "1", "5", "5", "b", "7", "1",
      "f", "4", "a", "0", "4", "d", "3", "e", "1", "b", "c", "3", "e", "1", "8",
      "c", "4", "a", "9", "9", "0", "a", "e", "e", "b">>

\* The empty RDB file of handlePsync: 88 bytes, which the replica reads with
\* data.toString() as the 87 characters below (Repl is U+FFFD, put for each
\* byte that is not UTF-8; the two bytes C2 B0 are the one character xB0).
Repl == "uFFFD"
EmptyRdbByteLength == 88
EmptyRdbText ==
    <<"R", "E", "D", "I", "S", "0", "0", "1", "1", Repl, "x09", "r", "e",
      "d", "i", "s", "-", "v", "e", "r", "x05", "7", ".", "2", ".", "0",
      Repl, LF, "r", "e", "d", "i", "s", "-", "b", "i", "t", "s", Repl,
      "@", Repl, "x05", "c", "t", "i", "m", "e", Repl, "m", "x08", Repl,
      "e", Repl, "x08", "u", "s", "e", "d", "-", "m", "e", "m", "xB0",
      Repl, "x10", "x00", Repl, "x08", "a", "o", "f", "-", "b", "a", "s",
      "e", Repl, "x00", Repl, Repl, "n", ";", Repl, Repl, Repl, "Z", Repl>>

GetAckRequest ==
    CreateArray(<<CreateBulkString(W_REPLCONF), CreateBulkString(W_GETACK),
                  CreateBulkString(Star)>>)

(***************************************************************************)
(* MasterServer.  st is the server object with, in st.out, what has been   *)
(* written to each socket and not yet read by its peer (for a client: all  *)
(* replies so far).  Fields named h... record history for the properties.  *)
(***************************************************************************)
NoWait == [present |-> FALSE]
NoBlock == [present |-> FALSE]

MasterInit ==
    [dataStore |-> <<>>,
     clientBuffers |-> [c \in Conns |-> <<>>],
     masterReplOffset |-> 0,
     replicas |-> <<>>,            \* the keys of this.replicas, in insertion order
     wait |-> NoWait,
     staleTimers |-> 0,            \* armed timers of WAIT records since replaced
     block |-> NoBlock,
     crashed |-> FALSE,            \* an exception escaped a handler
     out |-> [c \in Conns |-> <<>>],
     hWrites |-> [r \in Replicas |-> <<>>],  \* SETs executed since r registered
     hLastSet |-> <<>>,            \* key -> the last SET of the key
     hWaitReplies |-> 0,           \* replies written for the current WAIT record
     hOverlap |-> FALSE,           \* a WAIT was registered while one was pending
     hTimedOut |-> FALSE,          \* the current WAIT record met its deadline
     hSetSinceWait |-> FALSE]      \* a SET was handled after it was registered

Write(st, socket, data) == [st EXCEPT !.out[socket] = Append(@, data)]

RECURSIVE WriteAll(_, _, _)
WriteAll(st, sockets, data) ==
    IF sockets = <<>> THEN st
    ELSE WriteAll(Write(st, Head(sockets), data), Tail(sockets), data)

Crash(st) == [st EXCEPT !.crashed = TRUE]

\* Number(s) for the text of a WAIT argument
ToNumber(s) ==
    IF s = Undefined THEN NaN
    ELSE IF s = <<>> THEN 0
    ELSE IF \A i \in DOMAIN s : IsDigit(s[i]) THEN ParseDigits(s, 0)
    ELSE NaN
NumGeq(a, b) == a # NaN /\ b # NaN /\ a >= b

HandlePing == CreateSimpleString(T_PONG)
HandleEcho(args) == CreateBulkString(At(args, 0))

\* handleSet: args without the verb
HandleSet(st, args, t) ==
    LET key == At(args, 0)
        value == At(args, 1)
        stored == IF Len(args) = 2
                  THEN Insert(st.dataStore, key, value, t)
                  ELSE InsertWithExpiry(st.dataStore, key, value, At(args, 3), t)
    IN [st EXCEPT !.dataStore = stored,
                  !.hWrites = [r \in Replicas |->
                                  IF r \in Range(st.replicas)
                                  THEN Append(@[r], <<key, value>>) ELSE @[r]],
                  !.hSetSinceWait = TRUE,
                  !.hLastSet = MapSet(@, key,
                                  [value |-> value, at |-> t,
                                   px |-> IF Len(args) = 2 THEN Undefined
                                          ELSE At(args, 3)])]

\* handleGet: the store after the lookup, and the reply
HandleGet(st, args, t) ==
    LET g == Get(st.dataStore, At(args, 0), t) IN
    [st |-> [st EXCEPT !.dataStore = g.map],
     reply |-> IF ~g.found THEN NullBulkString
               ELSE IF g.map[At(args, 0)].type = "stream"
               THEN CreateBulkStringOfArray(g.value)
               ELSE CreateBulkString(g.value)]

HandleType(st, args, t) ==
    LET g == GetType(st.dataStore, At(args, 0), t) IN
    [st |-> [st EXCEPT !.dataStore = g.map],
     reply |-> CreateSimpleString(
                   IF ~g.found THEN T_none
                   ELSE IF g.type = "string" THEN T_string ELSE T_stream)]

\* propagate
PropagateToEveryPeer(st, request) ==
    [WriteAll(st, <<"r1", "r2">>, request) EXCEPT
        !.masterReplOffset = @ + Len(request)]
PropagatePerReplica(st, request) ==
    [WriteAll(st, st.replicas, request) EXCEPT
        !.masterReplOffset = @ + Len(request) * Len(st.replicas)]
Propagate(st, request) ==
    [WriteAll(st, st.replicas, request) EXCEPT
        !.masterReplOffset = @ + Len(request)]

\* respondToWait
RespondToWaitKeepTimer(st) ==
    Write([st EXCEPT !.masterReplOffset = @ + Len(st.wait.request),
                     !.wait.isDone = TRUE,
                     !.hWaitReplies = @ + 1],
          st.wait.socket, CreateInteger(st.wait.numOfAckReplicas))
RespondToWait(st) ==
    Write([st EXCEPT !.wait.timeout = FALSE,
                     !.masterReplOffset = @ + Len(st.wait.request),
                     !.wait.isDone = TRUE,
                     !.hWaitReplies = @ + 1],
          st.wait.socket, CreateInteger(st.wait.numOfAckReplicas))

\* acknowledgeReplica: this.wait is read without a check that it exists
AcknowledgeReplica(st, replicaOffset) ==
    IF ~st.wait.present THEN Crash(st)
    ELSE IF st.wait.isDone THEN st
    ELSE IF NumGeq(replicaOffset, st.masterReplOffset)
    THEN LET st1 == [st EXCEPT !.wait.numOfAckReplicas = @ + 1] IN
         IF NumGeq(st1.wait.numOfAckReplicas, ToNumber(st1.wait.numOfReqReplicas))
         THEN RespondToWait(st1) ELSE st1
    ELSE st

HandleReplconf(st, args, socket) ==
    IF ToLowerCase(At(args, 0)) = ToLowerCase(W_ACK)
    THEN AcknowledgeReplica(st, ParseInt(At(args, 1)))
    ELSE Write(st, socket, CreateSimpleString(T_OK))

\* handlePsync and the registration that follows it in handleCommand
HandlePsync(st, socket) ==
    LET st1 == Write(st, socket,
                     CreateSimpleString(T_FULLRESYNC \o <<" ">> \o MasterReplId
                                        \o <<" ">> \o NumText(st.masterReplOffset)))
        st2 == Write(st1, socket,
                     <<"$">> \o NumText(EmptyRdbByteLength) \o CRLF \o EmptyRdbText)
    IN [st2 EXCEPT !.replicas = IF socket \in Range(@) THEN @ ELSE Append(@, socket),
                   !.hWrites[socket] = <<>>]

\* handleWait, from "Register a wait" on: the record, its timer, the GETACKs.
\* A timer still armed for the record replaced stays armed.
RegisterWait(st, args, socket, request) ==
    LET stale == IF st.wait.present /\ st.wait.timeout
                 THEN st.staleTimers + 1 ELSE st.staleTimers
    IN WriteAll(
          [st EXCEPT !.wait = [present |-> TRUE,
                               numOfAckReplicas |-> 0,
                               numOfReqReplicas |-> At(args, 0),
                               socket |-> socket,
                               isDone |-> FALSE,
                               request |-> request,
                               timeout |-> TRUE],
                     !.staleTimers = stale,
                     !.hWaitReplies = 0,
                     !.hTimedOut = FALSE,
                     !.hSetSinceWait = FALSE,
                     !.hOverlap = (st.wait.present /\ ~st.wait.isDone) \/ stale > 0],
          st.replicas, GetAckRequest)

\* handleWait
HandleWaitNoOffsetTest(st, args, socket, request) ==
    IF Len(st.replicas) = 0 THEN Write(st, socket, CreateInteger(0))
    ELSE RegisterWait(st, args, socket, request)
HandleWait(st, args, socket, request) ==
    IF Len(st.replicas) = 0 THEN Write(st, socket, CreateInteger(0))
    ELSE IF st.masterReplOffset = 0
    THEN Write(st, socket, CreateInteger(Len(st.replicas)))
    ELSE RegisterWait(st, args, socket, request)

\* An entry as getStreamBetween and getStreamAfter return it:
\* [id, [name1, value1, name2, value2, ...]], the field id left out.
RECURSIVE FieldList(_)
FieldList(entry) ==
    IF entry = <<>> THEN <<>>
    ELSE (IF entry[1][1] = IdName THEN <<>> ELSE <<entry[1][1], entry[1][2]>>)
         \o FieldList(Tail(entry))
EntryPair(entry) == <<ObjGet(entry, IdName), FieldList(entry)>>

\* getStreamBetween(key, start, end): [] for a key the map does not hold;
\* for a key it holds, entries.filteR is not a function and the call throws.
GetStreamBetween(map, key, start, end) ==
    IF key \notin DOMAIN map THEN [thrown |-> FALSE, entries |-> <<>>]
    ELSE [thrown |-> TRUE, entries |-> <<>>]

\* The reply for one entry pair: [id, [name, value, ...]]
EncodeEntry(pair) ==
    CreateArray(<<CreateBulkString(pair[1]),
                  CreateArray([i \in DOMAIN pair[2] |-> CreateBulkString(pair[2][i])])>>)

\* handleXrange: args without the verb
HandleXrange(st, args) ==
    LET r == GetStreamBetween(st.dataStore, At(args, 0), At(args, 1), At(args, 2)) IN
    IF r.thrown THEN [thrown |-> TRUE, reply |-> <<>>]
    ELSE [thrown |-> FALSE,
          reply |-> IF Len(r.entries) = 0 THEN CreateBulkString(<<"n", "i", "l">>)
                    ELSE CreateArray([i \in DOMAIN r.entries |->
                                         EncodeEntry(r.entries[i])])]

\* getStreamAfter(streamKeys, startIds): for each key its entries with an ID
\* greater than the start ID of the key, as [key, [entry pair, ...]]; a key
\* without such an entry is left out.  IDs compare as (milliseconds, sequence).
IdMillis(id) == ParseInt(At(Split(id), 0))
IdSequence(id) == IF Len(Split(id)) < 2 THEN 0 ELSE ParseInt(At(Split(id), 1))
IdGreater(a, b) ==
    \/ IdMillis(a) > IdMillis(b)
    \/ IdMillis(a) = IdMillis(b) /\ IdSequence(a) > IdSequence(b)

RECURSIVE EntriesAfter(_, _)
EntriesAfter(entries, startId) ==
    IF entries = <<>> THEN <<>>
    ELSE (IF IdGreater(ObjGet(Head(entries), IdName), startId)
          THEN <<EntryPair(Head(entries))>> ELSE <<>>)
         \o EntriesAfter(Tail(entries), startId)

RECURSIVE GetStreamAfter(_, _, _)
GetStreamAfter(map, streamKeys, startIds) ==
    IF streamKeys = <<>> THEN <<>>
    ELSE LET key == Head(streamKeys)
             found == IF key \in DOMAIN map /\ map[key].type = "stream"
                      THEN EntriesAfter(map[key].value, At(startIds, 0))
                      ELSE <<>>
         IN (IF found = <<>> THEN <<>> ELSE <<<<key, found>>>>)
            \o GetStreamAfter(map, Tail(streamKeys), SliceFrom(startIds, 1))

\* getXreadResponse
GetXreadResponse(entries) ==
    IF Len(entries) = 0 THEN NullBulkString
    ELSE CreateArray([k \in DOMAIN entries |->
             CreateArray(<<CreateBulkString(entries[k][1]),
                           CreateArray([i \in DOMAIN entries[k][2] |->
                                           EncodeEntry(entries[k][2][i])])>>)])

\* checkBlock: answer the registered XREAD BLOCK once a watched stream has an
\* entry after its start ID, and clear its timer.
CheckBlock(st) ==
    IF ~st.block.present \/ st.block.isDone THEN st
    ELSE LET entries == GetStreamAfter(st.dataStore, st.block.streamKeys,
                                       st.block.startIds)
         IN IF Len(entries) = 0 THEN st
            ELSE [Write(st, st.block.socket, GetXreadResponse(entries))
                      EXCEPT !.block.isDone = TRUE, !.block.timeout = FALSE]

\* handleXread: args without the verb.  Without BLOCK the reply is written at
\* once.  With BLOCK the handler assigns to startIds, which is declared in
\* the other branch only: in the strict code of a class body the assignment
\* throws a ReferenceError, before this.block is written.
HandleXread(st, args, socket) ==
    IF ToLowerCase(At(args, 0)) # <<"b", "l", "o", "c", "k">>
    THEN LET rest == SliceFrom(args, 1)
             mid == (Len(rest) + 1) \div 2
             streamKeys == Slice(rest, 0, mid)
             startIds == SliceFrom(rest, mid)
         IN Write(st, socket,
                  GetXreadResponse(GetStreamAfter(st.dataStore, streamKeys, startIds)))
    ELSE Crash(st)

\* handleXadd's loop: streamEntry[args[i]] = args[i + 1] for i = 2, 4, ...
RECURSIVE SetFields(_, _, _)
SetFields(obj, args, i) ==
    IF i >= Len(args) THEN obj
    ELSE SetFields(ObjSet(obj, At(args, i), At(args, i + 1)), args, i + 2)

\* handleXadd: args without the verb
HandleXaddInsertFirst(st, args, socket, t) ==
    LET streamKey == At(args, 0)
        streamEntryId == At(args, 1)
        streamEntry == SetFields(<<<<IdName, streamEntryId>>>>, args, 2)
        ins == InsertStream(st.dataStore, streamKey, streamEntry, t)
    IN
    IF ins.result = "throw" THEN Crash([st EXCEPT !.dataStore = ins.map])
    ELSE IF streamEntryId = <<"0", "-", "0">>
    THEN Write([st EXCEPT !.dataStore = InsertStream(st.dataStore, streamKey,
                                                     <<<<IdName, Star>>>>, t).map],
               socket, CreateSimpleError(ErrXaddZero))
    ELSE IF ins.result = "null"
    THEN Write([st EXCEPT !.dataStore = ins.map], socket,
               CreateSimpleError(ErrXaddSmall))
    ELSE CheckBlock(Write([st EXCEPT !.dataStore = ins.map], socket,
                          CreateBulkString(ins.id)))
HandleXadd(st, args, socket, t) ==
    LET streamKey == At(args, 0)
        streamEntryId == At(args, 1)
        streamEntry == SetFields(<<<<IdName, streamEntryId>>>>, args, 2)
        ins == InsertStream(st.dataStore, streamKey, streamEntry, t)
    IN
    IF streamEntryId = <<"0", "-", "0">>
    THEN Write(st, socket, CreateSimpleError(ErrXaddZero))
    ELSE IF ins.result = "throw" THEN Crash([st EXCEPT !.dataStore = ins.map])
    ELSE IF ins.result = "null"
    THEN Write([st EXCEPT !.dataStore = ins.map], socket,
               CreateSimpleError(ErrXaddSmall))
    ELSE CheckBlock(Write([st EXCEPT !.dataStore = ins.map], socket,
                          CreateBulkString(ins.id)))

\* handleInfo
T_role == <<"r", "o", "l", "e", ":", "m", "a", "s", "t", "e", "r">>
T_replid == <<"m", "a", "s", "t", "e", "r", "_", "r", "e", "p", "l", "i", "d", ":">>
T_repl_offset == <<"m", "a", "s", "t", "e", "r", "_", "r", "e", "p", "l", "_", "o", "f", "f", "s", "e", "t", ":">>
HandleInfo(st, args) ==
    LET section == ToLowerCase(At(args, 0)) IN
    CreateBulkString(
       IF section = <<"r", "e", "p", "l", "i", "c", "a", "t", "i", "o", "n">>
       THEN T_role \o <<LF>> \o T_replid \o MasterReplId \o <<LF>>
               \o T_repl_offset \o NumText(st.masterReplOffset)
       ELSE <<>>)

\* this.config, the object loadRDBFile reads dir and dbFilename from
ServerConfig ==
    <<<<<<"d", "i", "r">>, <<"/", "t", "m", "p">>>>, <<<<"d", "b", "F", "i", "l", "e", "n", "a", "m", "e">>, <<"d", "u", "m", "p", ".", "r", "d", "b">>>>>>

\* handleConfig: createBulkString(undefined) throws for a name the config
\* object does not hold
HandleConfig(args) ==
    LET arg == ToLowerCase(At(args, 1)) IN
    IF ~HasProp(ServerConfig, arg) THEN [thrown |-> TRUE, reply |-> <<>>]
    ELSE [thrown |-> FALSE,
          reply |-> CreateArray(<<CreateBulkString(arg),
                                  CreateBulkString(ObjGet(ServerConfig, arg))>>)]

\* getAllKeys: the keys of the map, as a sequence
GetAllKeys(map) ==
    CHOOSE s \in [1..Cardinality(DOMAIN map) -> DOMAIN map] : Range(s) = DOMAIN map

\* handleKeys
HandleKeysAsWrite(st, args, t) ==
    [st |-> Propagate(st, Request(<<<<"K", "E", "Y", "S">>, At(args, 0)>>)),
     reply |-> NullBulkString]
HandleKeys(st, args, t) ==
    LET key == At(args, 0)
        g == Get(st.dataStore, key, t)
        all == GetAllKeys(st.dataStore)
    IN
    IF key = Star
    THEN [st |-> st,
          reply |-> CreateArray([i \in DOMAIN all |-> CreateBulkString(all[i])])]
    ELSE [st |-> [st EXCEPT !.dataStore = g.map],
          reply |-> IF ~g.found THEN NullBulkString ELSE CreateBulkString(g.value)]

\* handleCommand, the cases info, config and keys
HandleInfoConfigKeys(st, socket, command, rest, t) ==
    IF command = <<"i", "n", "f", "o">>
    THEN IF Len(rest) = 0 THEN Crash(st) ELSE Write(st, socket, HandleInfo(st, rest))
    ELSE IF command = <<"c", "o", "n", "f", "i", "g">>
    THEN IF Len(rest) < 2 \/ HandleConfig(rest).thrown THEN Crash(st)
         ELSE Write(st, socket, HandleConfig(rest).reply)
    ELSE IF command = <<"k", "e", "y", "s">>
    THEN Write(HandleKeys(st, rest, t).st, socket, HandleKeys(st, rest, t).reply)
    ELSE st

\* handleCommand
HandleCommand(st, socket, args, request, t) ==
    LET command == ToLowerCase(args[1])
        rest == Tail(args)
    IN
    IF command = ToLowerCase(W_PING) THEN Write(st, socket, HandlePing)
    ELSE IF command = <<"e", "c", "h", "o">>
    THEN Write(st, socket, HandleEcho(rest))
    ELSE IF command = ToLowerCase(W_SET)
    THEN Propagate(Write(HandleSet(st, rest, t), socket, CreateSimpleString(T_OK)),
                   request)
    ELSE IF command = ToLowerCase(W_GET)
    THEN LET g == HandleGet(st, rest, t) IN Write(g.st, socket, g.reply)
    ELSE IF command = ToLowerCase(W_TYPE)
    THEN LET g == HandleType(st, rest, t) IN Write(g.st, socket, g.reply)
    ELSE IF command = ToLowerCase(W_REPLCONF) THEN HandleReplconf(st, rest, socket)
    ELSE IF command = ToLowerCase(W_PSYNC) THEN HandlePsync(st, socket)
    ELSE IF command = ToLowerCase(W_WAIT) THEN HandleWait(st, rest, socket, request)
    ELSE IF command = ToLowerCase(W_XADD) THEN HandleXadd(st, rest, socket, t)
    ELSE IF command = ToLowerCase(W_XRANGE)
    THEN LET x == HandleXrange(st, rest) IN
         IF x.thrown THEN Crash(st) ELSE Write(st, socket, x.reply)
    ELSE IF command = ToLowerCase(W_XREAD) THEN HandleXread(st, rest, socket)
    ELSE HandleInfoConfigKeys(st, socket, command, rest, t)

\* processClientBuffer: parse and handle requests until parse returns nothing,
\* then keep the rest of the buffer.  An exception in a handler ends the process.
RECURSIVE ParseLoop(_, _, _, _, _)
ParseLoop(st, socket, request, cursor, t) ==
    LET p == Parse(request, cursor) IN
    IF Len(p.args) = 0
    THEN [st EXCEPT !.clientBuffers[socket] = GetRemainingRequest(request, p.cursor)]
    ELSE LET st1 == HandleCommand(st, socket, p.args, p.currentRequest, t) IN
         IF st1.crashed THEN st1
         ELSE ParseLoop(st1, socket, request, p.cursor, t)

ProcessClientBuffer(st, socket, t) ==
    ParseLoop(st, socket, st.clientBuffers[socket], 0, t)

\* the socket's data event
MasterOnData(st, socket, data, t) ==
    ProcessClientBuffer([st EXCEPT !.clientBuffers[socket] = @ \o data], socket, t)

\* startServer: the 'close' and the 'error' handler of a socket
OnClose(st, socket) == [st EXCEPT !.clientBuffers[socket] = Undefined]

(***************************************************************************)
(* SlaveServer.  The handlers return the server object sl and, in wr, the  *)
(* segments written to the master socket.                                  *)
(***************************************************************************)
SlavePort == <<"6", "3", "8", "0">>
T_listening == <<"l", "i", "s", "t", "e", "n", "i", "n", "g", "-", "p", "o", "r", "t">>
T_capa == <<"c", "a", "p", "a">>
T_psync2 == <<"p", "s", "y", "n", "c", "2">>
T_info == <<"i", "n", "f", "o">>
T_replication == <<"r", "e", "p", "l", "i", "c", "a", "t", "i", "o", "n">>
T_roleSlave == <<"r", "o", "l", "e", ":", "s", "l", "a", "v", "e">>

PingRequest == CreateArray(<<CreateBulkString(W_PING)>>)
ListeningPortRequest ==
    CreateArray(<<CreateBulkString(W_REPLCONF), CreateBulkString(T_listening),
                  CreateBulkString(SlavePort)>>)
CapaRequest ==
    CreateArray(<<CreateBulkString(W_REPLCONF), CreateBulkString(T_capa),
                  CreateBulkString(T_psync2)>>)
PsyncRequest ==
    CreateArray(<<CreateBulkString(W_PSYNC), CreateBulkString(<<"?">>),
                  CreateBulkString(<<"-", "1">>)>>)

\* The object after the constructor and performHandshake's synchronous part:
\* PING is written, handshakeStep is 1.
SlaveInit ==
    [handshakeStep |-> 1,
     masterBuffer |-> <<>>,
     masterOffset |-> 0,
     dataStore |-> <<>>,
     clientBuffers |-> [c \in Clients |-> <<>>],
     out |-> [c \in Clients |-> <<>>],  \* the replies written to each client
     hung |-> FALSE,               \* a handler is in a loop that never ends
     crashed |-> FALSE,            \* an exception escaped a handler
     hApplied |-> <<>>]            \* the <<key, value>> of every SET handled

\* handleSet
SlaveHandleSet(sl, args, t) ==
    LET key == At(args, 0)
        value == At(args, 1)
    IN [sl EXCEPT !.dataStore =
                      IF Len(args) = 2 THEN Insert(@, key, value, t)
                      ELSE InsertWithExpiry(@, key, value, At(args, 3), t),
                  !.hApplied = Append(@, <<key, value>>)]

\* handleGet
SlaveHandleGet(sl, args, t) ==
    LET g == Get(sl.dataStore, At(args, 0), t) IN
    [sl |-> [sl EXCEPT !.dataStore = g.map],
     reply |-> IF ~g.found THEN NullBulkString ELSE CreateBulkString(g.value)]

\* handleReplconf: the ACK array with the current masterOffset
SlaveHandleReplconf(sl) ==
    CreateArray(<<CreateBulkString(W_REPLCONF), CreateBulkString(W_ACK),
                  CreateBulkString(NumText(sl.masterOffset))>>)

\* handleCommand, for a request read from the master socket
SlaveHandleCommand(sl, wr, args, request, t) ==
    LET command == ToLowerCase(args[1])
        rest == Tail(args)
    IN
    IF command = T_info
    THEN IF ToLowerCase(At(rest, 0)) = T_replication
         THEN [sl |-> sl, wr |-> Append(wr, CreateBulkString(T_roleSlave))]
         ELSE [sl |-> [sl EXCEPT !.crashed = TRUE], wr |-> wr]
    ELSE IF command = ToLowerCase(W_SET)
    THEN [sl |-> SlaveHandleSet(sl, rest, t), wr |-> wr]
    ELSE IF command = ToLowerCase(W_GET)
    THEN LET g == SlaveHandleGet(sl, rest, t) IN
         [sl |-> g.sl, wr |-> Append(wr, g.reply)]
    ELSE IF command = ToLowerCase(W_REPLCONF)
    THEN [sl |-> sl, wr |-> Append(wr, SlaveHandleReplconf(sl))]
    ELSE [sl |-> sl, wr |-> wr]

\* processMasterBuffer
RECURSIVE SlaveParseLoop(_, _, _, _, _)
SlaveParseLoop(sl, wr, request, cursor, t) ==
    LET p == Parse(request, cursor) IN
    IF Len(p.args) = 0
    THEN [sl |-> [sl EXCEPT !.masterBuffer = GetRemainingRequest(request, p.cursor)],
          wr |-> wr]
    ELSE LET h == SlaveHandleCommand(sl, wr, p.args, p.currentRequest, t) IN
         IF h.sl.crashed THEN h
         ELSE SlaveParseLoop(
                  [h.sl EXCEPT !.masterOffset = @ + Len(p.currentRequest)],
                  h.wr, request, p.cursor, t)

\* processMasterBuffer with the two statements of the loop body exchanged:
\* the offset is advanced before the request is handled.
RECURSIVE SlaveParseLoopCountFirst(_, _, _, _, _)
SlaveParseLoopCountFirst(sl, wr, request, cursor, t) ==
    LET p == Parse(request, cursor) IN
    IF Len(p.args) = 0
    THEN [sl |-> [sl EXCEPT !.masterBuffer = GetRemainingRequest(request, p.cursor)],
          wr |-> wr]
    ELSE LET h == SlaveHandleCommand(
                      [sl EXCEPT !.masterOffset = @ + Len(p.currentRequest)],
                      wr, p.args, p.currentRequest, t) IN
         IF h.sl.crashed THEN h
         ELSE SlaveParseLoopCountFirst(h.sl, h.wr, request, p.cursor, t)

ProcessMasterBufferCountFirst(sl, wr, t) ==
    SlaveParseLoopCountFirst(sl, wr, sl.masterBuffer, 0, t)

ProcessMasterBuffer(sl, wr, t) == SlaveParseLoop(sl, wr, sl.masterBuffer, 0, t)

StartsWith(s, prefix) ==
    Len(s) >= Len(prefix) /\ SubSeq(s, 1, Len(prefix)) = prefix

\* String.prototype.indexOf("\r\n"), -1 when absent
RECURSIVE IndexOfCRLFFrom(_, _)
IndexOfCRLFFrom(s, i) ==
    IF i > Len(s) - 2 THEN 0 - 1
    ELSE IF s[i + 1] = CR /\ s[i + 2] = LF THEN i
    ELSE IndexOfCRLFFrom(s, i + 1)
IndexOfCRLF(s) == IndexOfCRLFFrom(s, 0)

\* performHandshake step 4: the loop reading the RDB size from idx on; it
\* never ends when no "\r" follows.
RECURSIVE ReadRdbSize(_, _, _)
ReadRdbSize(s, idx, size) ==
    IF \A j \in (idx + 1)..Len(s) : s[j] # CR THEN [hangs |-> TRUE]
    ELSE IF s[idx + 1] = CR THEN [hangs |-> FALSE, idx |-> idx, size |-> size]
    ELSE ReadRdbSize(s, idx + 1,
                     IF size = NaN \/ ~IsDigit(s[idx + 1]) THEN NaN
                     ELSE size * 10 + DigitVal(s[idx + 1]))

\* After the handshake the data handler appends to masterBuffer and processes it.
SlaveStreaming(sl, wr, masterResponse, t) ==
    IF masterResponse = <<>> THEN [sl |-> sl, wr |-> wr]
    ELSE ProcessMasterBuffer([sl EXCEPT !.masterBuffer = @ \o masterResponse], wr, t)

\* the master socket's data event
SlaveOnData(sl, data, t) ==
    LET masterResponse == ToLowerCase(data)
        same == [sl |-> sl, wr |-> <<>>]
    IN
    IF sl.handshakeStep = 1
    THEN IF masterResponse # CreateSimpleString(ToLowerCase(T_PONG)) THEN same
         ELSE [sl |-> [sl EXCEPT !.handshakeStep = 2], wr |-> <<ListeningPortRequest>>]
    ELSE IF sl.handshakeStep = 2
    THEN IF masterResponse # CreateSimpleString(ToLowerCase(T_OK)) THEN same
         ELSE [sl |-> [sl EXCEPT !.handshakeStep = 3], wr |-> <<CapaRequest>>]
    ELSE IF sl.handshakeStep = 3
    THEN IF masterResponse # CreateSimpleString(ToLowerCase(T_OK)) THEN same
         ELSE [sl |-> [sl EXCEPT !.handshakeStep = 4], wr |-> <<PsyncRequest>>]
    ELSE IF sl.handshakeStep = 4
    THEN IF ~StartsWith(masterResponse, <<"+">> \o ToLowerCase(T_FULLRESYNC)) THEN same
         ELSE LET size == ReadRdbSize(masterResponse, IndexOfCRLF(masterResponse) + 3, 0)
              IN
              IF size.hangs THEN [sl |-> [sl EXCEPT !.hung = TRUE], wr |-> <<>>]
              ELSE LET idx == IF size.size = NaN THEN NaN
                               ELSE size.idx + 2 + size.size - 1 IN
                   SlaveStreaming([sl EXCEPT !.masterBuffer = <<>>,
                                             !.handshakeStep = 5],
                                  <<>>, SliceFrom(data, idx), t)
    ELSE SlaveStreaming(sl, <<>>, masterResponse, t)

(***************************************************************************)
(* replication.js and the handlers it calls: the follower written as       *)
(* functions.  rp is its state: replicaConnection's stage, the cache and   *)
(* replicationInfo.bytesProcessed of the handlers, and in rp.out what has  *)
(* been written to replicaSocket.                                          *)
(***************************************************************************)
UpperTable == [c \in LowerSet |-> UpperCase[CHOOSE i \in DOMAIN LowerCase : LowerCase[i] = c]]
UpperChar(c) == IF c \in LowerSet THEN UpperTable[c] ELSE c
ToUpperCase(s) == [i \in DOMAIN s |-> UpperChar(s[i])]

\* String.prototype.split('\r\n')
RECURSIVE SplitCRLF(_)
SplitCRLF(s) ==
    LET i == IndexOfCRLF(s) IN
    IF i < 0 THEN <<s>>
    ELSE <<SubSeq(s, 1, i)>> \o SplitCRLF(SubSeq(s, i + 3, Len(s)))

\* String.prototype.includes(sub), and indexOf(sub) > 0
Includes(s, sub) ==
    \E i \in 0..(Len(s) - Len(sub)) : SubSeq(s, i + 1, i + Len(sub)) = sub
IndexOfPositive(s, sub) == Includes(s, sub) /\ ~StartsWith(s, sub)

\* utils.js
GetBulkString(str) == <<"$">> \o NumText(Len(str)) \o CRLF \o str \o CRLF
GetStringArray(args) ==
    <<"*">> \o NumText(Len(args)) \o CRLF
    \o Concat([i \in DOMAIN args |-> GetBulkString(args[i])])
EncodeArray(data) ==
    <<"*">> \o NumText(Len(data)) \o CRLF
    \o Concat([i \in DOMAIN data |-> <<"$">> \o NumText(Len(data[i])) \o CRLF
                                      \o data[i] \o CRLF])

\* cmdParser's loop over the parameters: the results, or undefined
JsNull == <<"null">>
RECURSIVE CmdParameters(_, _, _)
CmdParameters(dataLines, count, results) ==
    IF count = NaN \/ count = 0 THEN [defined |-> TRUE, results |-> results]
    ELSE IF dataLines = <<>> \/ dataLines[1] = <<>> THEN [defined |-> FALSE]
    ELSE LET currentParameter == dataLines[1] IN
         IF currentParameter[1] = "+"
         THEN CmdParameters(Tail(dataLines), count - 1,
                            Append(results, Tail(currentParameter)))
         ELSE IF currentParameter[1] = "$"
         THEN IF Len(currentParameter) < 2 THEN [defined |-> FALSE]
              ELSE IF Tail(currentParameter) = <<"-", "1">>
              THEN CmdParameters(Tail(dataLines), count - 1, Append(results, JsNull))
              ELSE LET expectedLength == ToNumber(Tail(currentParameter))
                       actualString == At(dataLines, 1)
                   IN IF /\ actualString # Undefined /\ actualString # <<>>
                         /\ Len(actualString) # expectedLength
                      THEN [defined |-> FALSE]
                      ELSE CmdParameters(SubSeq(dataLines, 3, Len(dataLines)),
                                         count - 1, Append(results, actualString))
         ELSE [defined |-> FALSE]

\* cmdParser: threw when reading [0] of a missing first line
CmdParser(data) ==
    LET split == SplitCRLF(data)
        dataLines == SubSeq(split, 1, Len(split) - 1)
    IN
    IF dataLines = <<>> THEN [defined |-> FALSE, threw |-> TRUE]
    ELSE LET isCount == dataLines[1] # <<>> /\ dataLines[1][1] = "*"
             r == IF isCount
                  THEN CmdParameters(Tail(dataLines), ToNumber(Tail(dataLines[1])), <<>>)
                  ELSE CmdParameters(dataLines, 1, <<>>)
         IN IF r.defined THEN [defined |-> TRUE, threw |-> FALSE, results |-> r.results]
            ELSE [defined |-> FALSE, threw |-> FALSE]

\* parseCommandChunks: the data cut before every "*" after the first character
RECURSIVE CommandChunks(_, _)
CommandChunks(data, currentIndex) ==
    IF currentIndex >= Len(data) THEN <<>>
    ELSE LET stars == {i \in (currentIndex + 1)..(Len(data) - 1) : data[i + 1] = "*"}
             currentChunkEnd ==
                 IF stars = {} THEN Len(data)
                 ELSE CHOOSE i \in stars : \A j \in stars : i <= j
         IN <<SubSeq(data, currentIndex + 1, currentChunkEnd)>>
            \o CommandChunks(data, currentChunkEnd)
ParseCommandChunks(data) ==
    LET commandChunks == CommandChunks(data, 0)
        n == Len(commandChunks)
    IN IF n = 0 \/ commandChunks[n] # <<"*">> \o CRLF THEN commandChunks
       ELSE IF n = 1 THEN <<>>
       ELSE [i \in 1..(n - 1) |->
                IF i = n - 1 THEN commandChunks[i] \o <<"*">> \o CRLF
                ELSE commandChunks[i]]

\* replicaConnection's stages
St_PING == "PING"
St_REPLCONF1 == "REPLCONF1"
St_REPLCONF2 == "REPLCONF2"
St_PSYNC == "PSYNC"
St_SYNCDONE == "SYNCDONE"

\* The state once the 'connect' handler has run: ping is written.
ReplicaInit ==
    [stage |-> St_PING,
     cache |-> <<>>,               \* the <<key, value>> of every cache.set, in order
     bytesProcessed |-> 0,
     out |-> <<GetStringArray(<<ToLowerCase(W_PING)>>)>>,
     crashed |-> FALSE]            \* an exception escaped a handler

\* handleSetCommand, for a SET without options
HandleSetCommand(rp, commands) ==
    IF Len(commands) < 2 THEN rp
    ELSE [rp EXCEPT !.cache = Append(@, <<ToLowerCase(commands[1]), commands[2]>>)]

\* handleReplConfCommand
HandleReplConfCommand(rp, commands) ==
    IF ToLowerCase(At(commands, 0)) = ToLowerCase(W_GETACK)
    THEN EncodeArray(<<W_REPLCONF, W_ACK, NumText(rp.bytesProcessed)>>)
    ELSE CreateSimpleString(T_OK)

\* handleCommands(replicaSocket, data, true): replies other than REPLCONF's
\* are not sent; PSYNC is never received by a follower
HandleCommands(rp, data) ==
    LET parsed == CmdParser(data) IN
    IF ~parsed.defined \/ parsed.results = <<>>
       \/ parsed.results[1] \in {JsNull, Undefined}
    THEN [rp EXCEPT !.crashed = TRUE]
    ELSE LET command == ToUpperCase(parsed.results[1])
             commands == Tail(parsed.results)
             handled ==
                 IF command = W_SET THEN HandleSetCommand(rp, commands)
                 ELSE IF command = W_REPLCONF
                 THEN IF commands = <<>> THEN [rp EXCEPT !.crashed = TRUE]
                      ELSE [rp EXCEPT !.out = Append(@, HandleReplConfCommand(rp, commands))]
                 ELSE rp
         IN IF handled.crashed \/ Includes(command, T_FULLRESYNC) THEN handled
            ELSE [handled EXCEPT !.bytesProcessed = @ + Len(data)]

RECURSIVE HandleRequests(_, _)
HandleRequests(rp, requests) ==
    IF requests = <<>> \/ rp.crashed THEN rp
    ELSE HandleRequests(HandleCommands(rp, Head(requests)), Tail(requests))

\* replicaConnection: the 'data' handler of replicaSocket
ReplicaOnData(rp, data) ==
    LET parsed == CmdParser(data) IN
    IF parsed.threw THEN [rp EXCEPT !.crashed = TRUE]
    ELSE IF ~parsed.defined \/ parsed.results = <<>> THEN rp
    ELSE IF parsed.results[1] \in {JsNull, Undefined, <<>>} THEN rp
    ELSE LET command == ToUpperCase(parsed.results[1]) IN
         IF rp.stage = St_PING
         THEN IF command # T_PONG THEN rp
              ELSE [rp EXCEPT !.out = Append(@, GetStringArray(
                                          <<W_REPLCONF, T_listening, SlavePort>>)),
                              !.stage = St_REPLCONF1]
         ELSE IF rp.stage = St_REPLCONF1
         THEN IF command # T_OK THEN rp
              ELSE [rp EXCEPT !.out = Append(@, GetStringArray(
                                          <<W_REPLCONF, T_capa, T_psync2>>)),
                              !.stage = St_REPLCONF2]
         ELSE IF rp.stage = St_REPLCONF2
         THEN IF command # T_OK THEN rp
              ELSE [rp EXCEPT !.out = Append(@, GetStringArray(
                                          <<W_PSYNC, <<"?">>, <<"-", "1">>>>)),
                              !.stage = St_PSYNC]
         ELSE IF rp.stage = St_PSYNC /\ IndexOfPositive(command, T_FULLRESYNC)
         THEN [rp EXCEPT !.stage = St_SYNCDONE]
         ELSE HandleRequests(rp, ParseCommandChunks(data))

(***************************************************************************)
(* The system: one master, the replicas connecting to it, one client.      *)
(***************************************************************************)
\* What the clients send.  SetNonCanonical is SET a 1 with the length of
\* the value written "01": a frame that differs from its re-encoding.
SetNonCanonical ==
    <<"*", "3">> \o CRLF \o CreateBulkString(W_SET) \o CreateBulkString(<<"a">>)
    \o <<"$", "0", "1">> \o CRLF \o <<"1">> \o CRLF
SetFrames == {Request(<<W_SET, <<"a">>, <<"B">>>>), SetNonCanonical}
WaitFrames == {Request(<<W_WAIT, <<"1">>, <<"5", "0", "0">>>>),
               Request(<<W_WAIT, <<"2">>, <<"1", "0", "0">>>>)}

\* The first n segments of a socket's queue arrive as one chunk of data.
Chunk(queue, n) == Concat(SubSeq(queue, 1, n))
Rest(queue, n) == SubSeq(queue, n + 1, Len(queue))

Init ==
    /\ master = MasterInit
    /\ slave = [r \in Replicas |-> SlaveInit]
    /\ s2m = [r \in Replicas |-> <<PingRequest>>]
    /\ now = StartTime
    /\ replica = ReplicaInit
    /\ sent = [sets |-> 0, waits |-> 0, xadds |-> 0, reads |-> 0, ticks |-> 0,
               last |-> <<>>, script |-> <<>>, left |-> <<>>, emitted |-> <<>>]

\* A client sends one frame and the master's data handler runs on it.
ClientSends(c, frame) ==
    /\ ~master.crashed
    /\ master' = MasterOnData(master, c, frame, now)
    /\ UNCHANGED <<replica, slave, s2m, now>>

ClientSet(c) ==
    /\ sent.sets < MaxSets /\ sent.sets + sent.waits < MaxFrames
    /\ \E frame \in SetFrames :
          /\ ClientSends(c, frame)
          /\ sent' = [sent EXCEPT !.sets = @ + 1, !.last = frame]

ClientWait(c) ==
    /\ sent.waits < MaxWaits /\ sent.sets + sent.waits < MaxFrames
    /\ \E frame \in WaitFrames :
          /\ ClientSends(c, frame)
          /\ sent' = [sent EXCEPT !.waits = @ + 1, !.last = frame]

\* The master's data handler runs on what a replica wrote.
MasterReceive(r) ==
    /\ ~master.crashed
    /\ \E n \in 1..Min(Len(s2m[r]), MaxCoalesce) :
          /\ master' = MasterOnData(master, r, Chunk(s2m[r], n), now)
          /\ s2m' = [s2m EXCEPT ![r] = Rest(@, n)]
    /\ UNCHANGED <<replica, slave, now, sent>>

\* A replica's data handler runs on what the master wrote to it.
SlaveReceive(r) ==
    /\ ~slave[r].hung /\ ~slave[r].crashed
    /\ \E n \in 1..Min(Len(master.out[r]), MaxCoalesce) :
          LET h == SlaveOnData(slave[r], Chunk(master.out[r], n), now) IN
          /\ slave' = [slave EXCEPT ![r] = h.sl]
          /\ s2m' = [s2m EXCEPT ![r] = @ \o h.wr]
          /\ master' = [master EXCEPT !.out[r] = Rest(@, n)]
    /\ UNCHANGED <<replica, now, sent>>

\* The timer of the current WAIT record fires.
WaitTimeout ==
    /\ ~master.crashed
    /\ master.wait.present /\ master.wait.timeout
    /\ master' = RespondToWait([master EXCEPT !.hTimedOut = TRUE])
    /\ UNCHANGED <<replica, slave, s2m, now, sent>>

\* The timer of a WAIT record that has been replaced fires: respondToWait
\* works on this.wait, the current record.
StaleWaitTimeout ==
    /\ ~master.crashed
    /\ master.staleTimers > 0
    /\ master' = RespondToWait([master EXCEPT !.staleTimers = @ - 1])
    /\ UNCHANGED <<replica, slave, s2m, now, sent>>

NextRepl ==
    \/ \E c \in Clients : ClientSet(c)
    \/ \E c \in Clients : ClientWait(c)
    \/ \E r \in Replicas : MasterReceive(r)
    \/ \E r \in Replicas : SlaveReceive(r)
    \/ WaitTimeout
    \/ StaleWaitTimeout

SpecRepl == Init /\ [][NextRepl]_vars

(***************************************************************************)
(* Streams: a client sends XADD commands for one stream while time passes. *)
(***************************************************************************)
XaddIds ==
    {<<"0", "-", "0">>, <<"0", "0", "-", "0">>, <<"0", "-", "*">>,
     <<"0", "0", "-", "*">>, <<"9", "-", "1">>, <<"1", "0", "-", "0">>,
     <<"9", "-", "*">>, <<"1", "0", "-", "*">>, Star}
StreamKey == <<"s">>
XaddFrame(id) == Request(<<W_XADD, StreamKey, id, <<"f">>, <<"1">>>>)

ClientXadd(c) ==
    /\ sent.xadds < MaxXadds
    /\ \E id \in XaddIds :
          /\ ClientSends(c, XaddFrame(id))
          /\ sent' = [sent EXCEPT !.xadds = @ + 1, !.last = XaddFrame(id)]

\* Date.now() advances.
Tick ==
    /\ sent.ticks < MaxTicks
    /\ now' = now + 1
    /\ sent' = [sent EXCEPT !.ticks = @ + 1]
    /\ UNCHANGED <<replica, master, slave, s2m>>

NextStream ==
    \/ \E c \in Clients : ClientXadd(c)
    \/ Tick

SpecStream == Init /\ [][NextStream]_vars

(***************************************************************************)
(* Expiry: a client sets one key, with and without PX, and reads it while  *)
(* time passes.                                                            *)
(***************************************************************************)
ExpiryKey == <<"k">>
PxMillis == <<"2">>
SetPxFrame == Request(<<W_SET, ExpiryKey, <<"v">>, W_PX, PxMillis>>)
ExpiryFrames == {SetPxFrame, Request(<<W_SET, ExpiryKey, <<"w">>>>)}
GetFrame == Request(<<W_GET, ExpiryKey>>)
TypeFrame == Request(<<W_TYPE, ExpiryKey>>)

ClientSetPx(c) ==
    /\ sent.sets < MaxSets
    /\ \E frame \in ExpiryFrames :
          /\ ClientSends(c, frame)
          /\ sent' = [sent EXCEPT !.sets = @ + 1, !.last = frame]

ClientRead(c) ==
    /\ sent.reads < MaxReads
    /\ \E frame \in {GetFrame, TypeFrame} :
          /\ ClientSends(c, frame)
          /\ sent' = [sent EXCEPT !.reads = @ + 1, !.last = frame]

NextExpiry ==
    \/ \E c \in Clients : ClientSetPx(c)
    \/ \E c \in Clients : ClientRead(c)
    \/ Tick

SpecExpiry == Init /\ [][NextExpiry]_vars

\* Date.now() advances by a day.
DayPasses ==
    /\ now < StartTime + MaxDays * DayMs
    /\ now' = now + DayMs
    /\ UNCHANGED <<replica, master, slave, s2m, sent>>

NextKeep ==
    \/ \E c \in Clients : ClientSetPx(c)
    \/ \E c \in Clients : ClientRead(c)
    \/ Tick
    \/ DayPasses

SpecKeep == Init /\ [][NextKeep]_vars

(***************************************************************************)
(* Parsing: a client sends a byte stream cut into chunks at any places.    *)
(***************************************************************************)
T_hi == <<"h", "i">>
PingArgs == <<W_PING>>
EchoArgs == <<<<"E", "C", "H", "O">>, T_hi>>
GetArgs == <<W_GET, ExpiryKey>>
\* a command in the inline form, which is no request frame
InlinePing == W_PING \o CRLF

Framed(args) == [args |-> args, frame |-> Request(args)]
WellFormedScripts ==
    {<<Framed(PingArgs), Framed(EchoArgs)>>,
     <<Framed(EchoArgs), Framed(GetArgs)>>,
     <<Framed(GetArgs), Framed(PingArgs)>>}
MalformedScripts ==
    {<<[args |-> <<>>, frame |-> InlinePing], Framed(PingArgs)>>}
ParseScripts == WellFormedScripts \cup MalformedScripts

StreamOf(script) == Concat([i \in DOMAIN script |-> script[i].frame])

InitParse ==
    /\ master = MasterInit
    /\ slave = [r \in Replicas |-> SlaveInit]
    /\ s2m = [r \in Replicas |-> <<PingRequest>>]
    /\ now = StartTime
    /\ replica = ReplicaInit
    /\ \E script \in ParseScripts :
          sent = [sets |-> 0, waits |-> 0, xadds |-> 0, reads |-> 0, ticks |-> 0,
                  last |-> <<>>, script |-> script, left |-> StreamOf(script),
                  emitted |-> <<>>]

\* The <<args, currentRequest>> of every parse() of processClientBuffer's
\* loop that returned arguments, from the cursor on.
RECURSIVE ParsedFrom(_, _)
ParsedFrom(request, cursor) ==
    LET p == Parse(request, cursor) IN
    IF Len(p.args) = 0 THEN <<>>
    ELSE <<<<p.args, p.currentRequest>>>> \o ParsedFrom(request, p.cursor)

\* The next n bytes of the stream arrive as one data event.
ClientChunk(c) ==
    \E n \in 1..Len(sent.left) :
       LET data == SubSeq(sent.left, 1, n) IN
       /\ ClientSends(c, data)
       /\ sent' = [sent EXCEPT
                      !.left = SubSeq(@, n + 1, Len(@)),
                      !.emitted = @ \o ParsedFrom(master.clientBuffers[c] \o data, 0)]

NextParse == \E c \in Clients : ClientChunk(c)

SpecParse == InitParse /\ [][NextParse]_vars

(***************************************************************************)
(* Streams with replicas: a client sends XADD while replicas attach.       *)
(***************************************************************************)
ReplXaddIds == {<<"9", "-", "1">>, Star}

ClientXaddRepl(c) ==
    /\ sent.xadds < MaxReplXadds
    /\ \E id \in ReplXaddIds :
          /\ ClientSends(c, XaddFrame(id))
          /\ sent' = [sent EXCEPT !.xadds = @ + 1, !.last = XaddFrame(id)]

NextReplStream ==
    \/ \E c \in Clients : ClientXaddRepl(c)
    \/ \E r \in Replicas : MasterReceive(r)
    \/ \E r \in Replicas : SlaveReceive(r)

SpecReplStream == Init /\ [][NextReplStream]_vars

(***************************************************************************)
(* The follower's master socket: once a replica has sent PSYNC and got the *)
(* snapshot, the server it connected to streams request frames to it.      *)
(***************************************************************************)
T_foo == <<"f", "o", "o">>
T_bar == <<"b", "a", "r">>
UpstreamFrames ==
    {Request(<<W_PING>>),
     Request(<<W_SET, T_foo, T_bar>>),
     Request(<<W_GET, T_foo>>),
     Request(<<T_info, T_replication>>),
     GetAckRequest}

\* The server at the other end of replica r's master socket writes a frame;
\* a run follows the stream to one replica.
UpstreamWrites(r) ==
    /\ ~master.crashed
    /\ r \in Range(master.replicas)
    /\ Len(sent.script) < MaxUpstream
    /\ \A i \in DOMAIN sent.script : sent.script[i].to = r
    /\ \E frame \in UpstreamFrames :
          /\ master' = [master EXCEPT !.out[r] = Append(@, frame)]
          /\ sent' = [sent EXCEPT !.script = Append(@, [to |-> r, frame |-> frame])]
    /\ UNCHANGED <<replica, slave, s2m, now>>

NextFollow ==
    \/ \E r \in Replicas : MasterReceive(r)
    \/ \E r \in Replicas : SlaveReceive(r)
    \/ \E r \in Replicas : UpstreamWrites(r)

SpecFollow == Init /\ [][NextFollow]_vars

(***************************************************************************)
(* The handshake: a follower is connected to a server that answers it with *)
(* any of the answers and frames below, in any order.                      *)
(***************************************************************************)
FullResyncLine ==
    CreateSimpleString(T_FULLRESYNC \o <<" ">> \o MasterReplId \o <<" ", "0">>)
RdbTransfer == <<"$">> \o NumText(EmptyRdbByteLength) \o CRLF \o EmptyRdbText
HandshakeAnswers ==
    {CreateSimpleString(T_PONG),
     CreateSimpleString(T_OK),
     FullResyncLine,
     FullResyncLine \o RdbTransfer,
     Request(<<W_SET, T_foo, T_bar>>),
     GetAckRequest}

\* A run follows one follower: f is a replica id or ReplicaJs.
ReplicaJs == "replica"
Answered(f, data) ==
    /\ Len(sent.script) < MaxAnswers
    /\ \A i \in DOMAIN sent.script : sent.script[i].to = f
    /\ sent' = [sent EXCEPT !.script = Append(@, [to |-> f, frame |-> data])]

\* The data handler of SlaveServer r runs on an answer.
UpstreamAnswers(r) ==
    /\ ~slave[r].hung /\ ~slave[r].crashed
    /\ \E data \in HandshakeAnswers :
          LET h == SlaveOnData(slave[r], data, now) IN
          /\ Answered(r, data)
          /\ slave' = [slave EXCEPT ![r] = h.sl]
          /\ s2m' = [s2m EXCEPT ![r] = @ \o h.wr]
    /\ UNCHANGED <<master, now, replica>>

\* The data handler of replicaConnection runs on an answer.
UpstreamAnswersReplica ==
    /\ ~replica.crashed
    /\ \E data \in HandshakeAnswers :
          /\ Answered(ReplicaJs, data)
          /\ replica' = ReplicaOnData(replica, data)
    /\ UNCHANGED <<master, slave, s2m, now>>

NextHandshake ==
    \/ \E r \in Replicas : UpstreamAnswers(r)
    \/ UpstreamAnswersReplica

SpecHandshake == Init /\ [][NextHandshake]_vars

(***************************************************************************)
(* Connections that close: a replica's or a client's socket emits 'close'; *)
(* no data event follows on a closed socket.                               *)
(***************************************************************************)
IsOpen(conn) == master.clientBuffers[conn] # Undefined

ConnectionCloses(conn) ==
    /\ ~master.crashed
    /\ IsOpen(conn)
    /\ master' = OnClose(master, conn)
    /\ UNCHANGED <<slave, s2m, now, sent, replica>>

OpenClientSet(c) ==
    /\ IsOpen(c) /\ sent.sets < MaxCloseSets
    /\ \E frame \in SetFrames :
          /\ ClientSends(c, frame)
          /\ sent' = [sent EXCEPT !.sets = @ + 1, !.last = frame]

OpenClientWait(c) ==
    /\ IsOpen(c) /\ sent.waits < MaxCloseWaits
    /\ \E frame \in WaitFrames :
          /\ ClientSends(c, frame)
          /\ sent' = [sent EXCEPT !.waits = @ + 1, !.last = frame]

OpenMasterReceive(r) == IsOpen(r) /\ MasterReceive(r)
OpenSlaveReceive(r) == IsOpen(r) /\ SlaveReceive(r)

NextClose ==
    \/ \E conn \in Conns : ConnectionCloses(conn)
    \/ \E c \in Clients : OpenClientSet(c)
    \/ \E c \in Clients : OpenClientWait(c)
    \/ \E r \in Replicas : OpenMasterReceive(r)
    \/ \E r \in Replicas : OpenSlaveReceive(r)
    \/ WaitTimeout

SpecClose == Init /\ [][NextClose]_vars

(***************************************************************************)
(* Properties of write propagation and WAIT (SpecRepl).                    *)
(***************************************************************************)
IsSetStep == sent'.sets = sent.sets + 1
IsWaitStep == sent'.waits = sent.waits + 1
Registered == Range(master.replicas)

\* C1: when the master handles a client's SET while at least one replica is
\* registered, the frame exactly as the client sent it is appended once to
\* the socket of every registered replica (and to no other replica's), and
\* masterReplOffset grows by the length of that frame.
C1_SetPropagatedRaw ==
    [][(IsSetStep /\ Registered # {}) =>
          /\ \A r \in Replicas :
                master'.out[r] = IF r \in Registered
                                 THEN Append(master.out[r], sent'.last)
                                 ELSE master.out[r]
          /\ master'.masterReplOffset = master.masterReplOffset + Len(sent'.last)
          /\ master'.replicas = master.replicas]_vars

\* C1 witness: both replicas are registered and the last thing written to
\* each is a SET frame that is not its own canonical encoding.
C1_Witness ==
    /\ Registered = Replicas
    /\ sent.sets = 1 /\ sent.last = SetNonCanonical
    /\ \A r \in Replicas :
          /\ master.out[r] # <<>>
          /\ master.out[r][Len(master.out[r])] = SetNonCanonical
    /\ master.masterReplOffset = Len(SetNonCanonical)
    /\ SetNonCanonical # Request(Parse(SetNonCanonical, 0).args)

IsPrefix(a, b) == Len(a) <= Len(b) /\ a = SubSeq(b, 1, Len(a))

\* The replica has processed everything the master has written to it.
CaughtUp(r) ==
    /\ r \in Registered
    /\ master.out[r] = <<>>
    /\ slave[r].handshakeStep = 5 /\ slave[r].masterBuffer = <<>>
    /\ ~slave[r].hung /\ ~slave[r].crashed

\* the value of the last write of key k in a sequence of <<key, value>>
LastWritten(writes, k) ==
    writes[CHOOSE i \in DOMAIN writes :
              /\ writes[i][1] = k
              /\ \A j \in DOMAIN writes : writes[j][1] = k => j <= i][2]

\* C2: the writes a replica has applied are, in order, the first of the
\* writes the master executed since the replica registered, and once the
\* replica has processed everything written to it, its GET of any key
\* written returns the last value the master wrote for that key.
C2_ReplicaAppliesWritesInOrder ==
    \A r \in Replicas :
       /\ IsPrefix(slave[r].hApplied, master.hWrites[r])
       /\ CaughtUp(r) =>
             /\ slave[r].hApplied = master.hWrites[r]
             /\ \A i \in DOMAIN master.hWrites[r] :
                   LET k == master.hWrites[r][i][1] IN
                   SlaveHandleGet(slave[r], <<k>>, now).reply =
                       CreateBulkString(LastWritten(master.hWrites[r], k))

\* A segment a replica wrote is a REPLCONF ACK frame; its offset argument.
IsAck(seg) ==
    LET a == Parse(seg, 0).args IN
    /\ Len(a) = 3
    /\ ToLowerCase(a[1]) = ToLowerCase(W_REPLCONF)
    /\ ToLowerCase(a[2]) = ToLowerCase(W_ACK)
AckOffset(seg) == ParseInt(Parse(seg, 0).args[3])

\* The step is the master reading the first n segments replica r wrote.
IsMasterReceive(r, n) ==
    /\ n \in 1..Len(s2m[r])
    /\ s2m' = [s2m EXCEPT ![r] = Rest(@, n)]
    /\ slave' = slave

\* The current WAIT record was registered while no other WAIT was pending.
SoleWait == master.wait.present /\ ~master.hOverlap

\* C3 (state part): such a WAIT has at most one reply; it is done exactly
\* when it has its reply, and its timer is armed exactly while it is not.
C3_RecordConsistent ==
    SoleWait =>
       /\ master.hWaitReplies <= 1
       /\ master.wait.isDone <=> master.hWaitReplies = 1
       /\ master.wait.timeout <=> ~master.wait.isDone
       /\ master.staleTimers = 0

\* C3 (step part): the reply is written to the waiting socket when the
\* acknowledgements counted reach the number asked for, or when the timer
\* fires, and is the count at that time; an ACK is counted only if its
\* offset is at least masterReplOffset; once the WAIT is done, ACKs change
\* nothing in the master.
C3_StepsOfWait ==
    (SoleWait /\ ~IsWaitStep) =>
       LET w == master.wait
           replied == master'.hWaitReplies = master.hWaitReplies + 1
       IN
       /\ master'.wait.present
       /\ replied =>
             /\ ~w.isDone /\ master'.wait.isDone
             /\ master'.out[w.socket] =
                   Append(master.out[w.socket],
                          CreateInteger(master'.wait.numOfAckReplicas))
             /\ \/ master'.hTimedOut /\ ~master.hTimedOut
                \/ /\ master'.wait.numOfAckReplicas > w.numOfAckReplicas
                   /\ master'.wait.numOfAckReplicas = ToNumber(w.numOfReqReplicas)
       /\ (~replied /\ ~IsSetStep) => master'.out[w.socket] = master.out[w.socket]
       /\ master'.wait.numOfAckReplicas # w.numOfAckReplicas =>
             \E r \in Replicas : \E n \in 1..MaxCoalesce :
                /\ IsMasterReceive(r, n)
                /\ \E i \in 1..n : /\ IsAck(s2m[r][i])
                                   /\ AckOffset(s2m[r][i]) >= master.masterReplOffset
       /\ \A r \in Replicas : \A n \in 1..MaxCoalesce :
             (/\ w.isDone
              /\ IsMasterReceive(r, n)
              /\ \A i \in 1..n : IsAck(s2m[r][i]))
             => master' = master

\* C3: a WAIT that is registered while no other WAIT is pending is answered
\* exactly once, at quorum or at its deadline, with the number of
\* acknowledgements counted; nothing replies a second time and ACKs that
\* arrive afterwards change nothing.
C3_WaitAnsweredOnce == [](C3_RecordConsistent) /\ [][C3_StepsOfWait]_vars

\* C3 witness: a sole WAIT answered at quorum, before its deadline, with an
\* ACK of a replica still unread by the master.
C3_Witness ==
    /\ SoleWait /\ master.wait.isDone /\ ~master.hTimedOut
    /\ master.hWaitReplies = 1
    /\ master.wait.numOfAckReplicas >= 1
    /\ \E r \in Replicas : s2m[r] # <<>> /\ IsAck(s2m[r][1])

\* Every registered replica has processed all the master wrote to it, and
\* the master has read all the replica wrote.
AllAnswered ==
    \A r \in Registered : CaughtUp(r) /\ s2m[r] = <<>>

\* C4: a WAIT k registered with k at most the number of replicas, after a
\* write and with no other WAIT pending, has its reply with a count of at
\* least k before its deadline once every replica has processed everything
\* and its answer to GETACK has been read.
C4_WaitReachesQuorum ==
    (/\ SoleWait /\ ~master.hTimedOut /\ ~master.hSetSinceWait
     /\ sent.sets >= 1
     /\ NumGeq(Len(master.replicas), ToNumber(master.wait.numOfReqReplicas))
     /\ AllAnswered)
    => /\ master.wait.isDone
       /\ NumGeq(master.wait.numOfAckReplicas, ToNumber(master.wait.numOfReqReplicas))

\* C5: a WAIT is answered while it is handled in two cases only: with :0
\* when no replica is registered, with :R when R >= 1 replicas are
\* registered and masterReplOffset is 0.  In both nothing but the reply
\* changes in the master (no WAIT record, no GETACK, no offset change).
\* In every other case no reply is written while it is handled.
C5_ImmediateWaitReplies ==
    [][IsWaitStep =>
          \E c \in Clients :
             LET R == Len(master.replicas) IN
             IF R = 0
             THEN master' = [master EXCEPT !.out[c] = Append(@, CreateInteger(0))]
             ELSE IF master.masterReplOffset = 0
             THEN master' = [master EXCEPT !.out[c] = Append(@, CreateInteger(R))]
             ELSE /\ master'.out[c] = master.out[c]
                  /\ master'.wait.present /\ ~master'.wait.isDone
                  /\ master'.wait.request = sent'.last
                  /\ \A r \in Registered :
                        master'.out[r] = Append(master.out[r], GetAckRequest)]_vars

\* C5 witness: both replicas registered, nothing written yet, and the WAIT
\* just handled has its reply :2 while no WAIT record exists.
C5_Witness ==
    /\ Registered = Replicas /\ master.masterReplOffset = 0
    /\ sent.waits >= 1 /\ ~master.wait.present
    /\ master.out["c1"] # <<>>
    /\ master.out["c1"][Len(master.out["c1"])] = CreateInteger(2)

(***************************************************************************)
(* Properties of stream IDs (SpecStream).  IDs are compared as the pair of *)
(* numbers (ms, seq).                                                      *)
(***************************************************************************)
IsXaddStep == sent'.xadds = sent.xadds + 1
EntriesOf(st) ==
    IF StreamKey \in DOMAIN st.dataStore THEN st.dataStore[StreamKey].value ELSE <<>>
EntryId(e) == ObjGet(e, IdName)
IdMs(id) == ParseInt(At(Split(id), 0))
IdSeq(id) == ParseInt(At(Split(id), 1))
NumIdLess(a, b) ==
    \/ IdMs(a) < IdMs(b)
    \/ IdMs(a) = IdMs(b) /\ IdSeq(a) < IdSeq(b)

\* the ID the client asked for in the XADD of this step
RequestedId == Parse(sent'.last, 0).args[3]
LastId(st) == EntryId(EntriesOf(st)[Len(EntriesOf(st))])

\* The XADD of this step appended one entry, whose ID is numerically
\* (ms, seq), and replied with that entry's ID.
XaddAppended(c, ms, seq) ==
    /\ Len(EntriesOf(master')) = Len(EntriesOf(master)) + 1
    /\ SubSeq(EntriesOf(master'), 1, Len(EntriesOf(master))) = EntriesOf(master)
    /\ IdMs(LastId(master')) = ms /\ IdSeq(LastId(master')) = seq
    /\ master'.out[c] = Append(master.out[c], CreateBulkString(LastId(master')))
\* The XADD of this step appended nothing and replied with the error.
XaddRejected(c, error) ==
    /\ EntriesOf(master') = EntriesOf(master)
    /\ master'.out[c] = Append(master.out[c], CreateSimpleError(error))

\* C6: in the stream every entry's ID is numerically greater than the ID
\* of the entry before it.
C6_StreamIdsIncrease ==
    \A i \in DOMAIN EntriesOf(master) :
       i > 1 => NumIdLess(EntryId(EntriesOf(master)[i - 1]),
                          EntryId(EntriesOf(master)[i]))

\* C7: the stream holds no entry whose ID is numerically (0, 0).
C7_NoZeroId ==
    \A i \in DOMAIN EntriesOf(master) :
       ~(/\ IdMs(EntryId(EntriesOf(master)[i])) = 0
         /\ IdSeq(EntryId(EntriesOf(master)[i])) = 0)

\* C8: an XADD with an ID ms-* on an empty stream is given seq 1 when ms is
\* 0 and seq 0 otherwise; on a stream whose last ID is (lms, lseq) it is
\* rejected when ms < lms, given seq lseq + 1 when ms = lms and seq 0 when
\* ms > lms, ms and lms compared as numbers.
C8_AutoSeqNumeric ==
    [][(IsXaddStep /\ RequestedId # Star /\ At(Split(RequestedId), 1) = Star) =>
          \E c \in Clients :
             LET ms == IdMs(RequestedId)
                 lms == IdMs(LastId(master))
                 lseq == IdSeq(LastId(master))
             IN
             IF EntriesOf(master) = <<>>
             THEN XaddAppended(c, ms, IF ms = 0 THEN 1 ELSE 0)
             ELSE IF ms < lms THEN XaddRejected(c, ErrXaddSmall)
             ELSE IF ms = lms THEN XaddAppended(c, ms, lseq + 1)
             ELSE XaddAppended(c, ms, 0)]_vars

\* C9: an XADD with an explicit ID ms-seq other than 0-0 appends the entry
\* and replies with the ID when the stream is empty or (ms, seq) is
\* numerically greater than the last entry's ID, and otherwise appends
\* nothing and replies that the ID is equal or smaller than the top item.
C9_ExplicitIdNumeric ==
    [][(/\ IsXaddStep /\ RequestedId # Star
        /\ At(Split(RequestedId), 1) # Star
        /\ ~(IdMs(RequestedId) = 0 /\ IdSeq(RequestedId) = 0)) =>
          \E c \in Clients :
             IF \/ EntriesOf(master) = <<>>
                \/ NumIdLess(LastId(master), RequestedId)
             THEN XaddAppended(c, IdMs(RequestedId), IdSeq(RequestedId))
             ELSE XaddRejected(c, ErrXaddSmall)]_vars

(***************************************************************************)
(* Properties of expiry (SpecExpiry).                                      *)
(***************************************************************************)
IsReadStep == sent'.reads = sent.reads + 1
\* The last SET of the key had PX d, at time t0 (hLastSet records it).
SetWithPx == ExpiryKey \in DOMAIN master.hLastSet
             /\ master.hLastSet[ExpiryKey].px # Undefined
Deadline == master.hLastSet[ExpiryKey].at + ParseInt(master.hLastSet[ExpiryKey].px)

\* C10 (state part): what GET and TYPE of the key yield at the present time.
C10_LookupNow ==
    SetWithPx =>
       LET g == HandleGet(master, <<ExpiryKey>>, now)
           ty == HandleType(master, <<ExpiryKey>>, now)
       IN
       /\ now < Deadline =>
             g.reply = CreateBulkString(master.hLastSet[ExpiryKey].value)
       /\ now > Deadline =>
             /\ g.reply = NullBulkString
             /\ ty.reply = CreateSimpleString(T_none)
             /\ ExpiryKey \notin DOMAIN g.st.dataStore
             /\ ExpiryKey \notin DOMAIN ty.st.dataStore

\* C10 (step part): the reply a client's GET or TYPE gets, and the keyspace
\* after it.
C10_ReadStep ==
    (IsReadStep /\ SetWithPx) =>
       \E c \in Clients :
          LET reply == master'.out[c][Len(master'.out[c])] IN
          /\ Len(master'.out[c]) = Len(master.out[c]) + 1
          /\ (now < Deadline /\ sent'.last = GetFrame) =>
                reply = CreateBulkString(master.hLastSet[ExpiryKey].value)
          /\ now > Deadline =>
                /\ sent'.last = GetFrame => reply = NullBulkString
                /\ sent'.last = TypeFrame => reply = CreateSimpleString(T_none)
                /\ ExpiryKey \notin DOMAIN master'.dataStore

\* C10: after SET k v PX d handled at t0, with no later SET of k, GET k
\* returns v while now < t0 + d; when now > t0 + d GET k returns the null
\* bulk string and TYPE k returns none, and the first such lookup removes k.
C10_ExpiryAfterPx == [](C10_LookupNow) /\ [][C10_ReadStep]_vars

\* C10 witness: the key was set with PX, its deadline has passed, a GET has
\* been answered with the null bulk string and the key is gone.
C10_Witness ==
    /\ SetWithPx /\ now > Deadline
    /\ sent.last = GetFrame
    /\ master.out["c1"][Len(master.out["c1"])] = NullBulkString
    /\ ExpiryKey \notin DOMAIN master.dataStore

(***************************************************************************)
(* Properties of strings stored without an expiry (SpecKeep).              *)
(***************************************************************************)
\* C11: a key whose last SET had no PX is never absent through the passage
\* of time: whatever the time, GET of the key returns the value set.
C11_NoExpiryKeepsValue ==
    (ExpiryKey \in DOMAIN master.hLastSet
     /\ master.hLastSet[ExpiryKey].px = Undefined)
    => HandleGet(master, <<ExpiryKey>>, now).reply =
           CreateBulkString(master.hLastSet[ExpiryKey].value)

(***************************************************************************)
(* Properties of the request parser under chunking (SpecParse).            *)
(***************************************************************************)
\* the bytes of the stream that have arrived, and the length of its first i frames
ArrivedBytes ==
    SubSeq(StreamOf(sent.script), 1, Len(StreamOf(sent.script)) - Len(sent.left))
FramesLength(i) == Len(StreamOf(SubSeq(sent.script, 1, i)))
\* the number of frames of the stream that have arrived whole
ArrivedFrames ==
    Cardinality({i \in DOMAIN sent.script : FramesLength(i) <= Len(ArrivedBytes)})

\* C12: for a stream of well-formed frames cut into chunks anywhere, what
\* the parser has returned so far is exactly the frames that have arrived
\* whole, each with its arguments and its exact bytes, in order, and the
\* connection buffer is the rest of the bytes that have arrived.
C12_FramesEmittedOnceWhole ==
    sent.script \in WellFormedScripts =>
       /\ sent.emitted = [i \in 1..ArrivedFrames |->
                             <<sent.script[i].args, sent.script[i].frame>>]
       /\ \A c \in Clients :
             master.clientBuffers[c] =
                 SliceFrom(ArrivedBytes, FramesLength(ArrivedFrames))

\* C13: the connection buffer never keeps bytes that cannot begin a request
\* frame: after a data event it is empty or starts with "*".
C13_NoUnparsableBytesKept ==
    \A c \in Clients :
       master.clientBuffers[c] = <<>> \/ master.clientBuffers[c][1] = "*"

(***************************************************************************)
(* Properties of XADD with replicas (SpecReplStream).                      *)
(***************************************************************************)
\* C14: when the master handles an XADD that appends an entry while
\* replicas are registered, the XADD frame as received is written to every
\* registered replica and masterReplOffset grows by the frame's length.
C14_XaddPropagated ==
    [][(/\ IsXaddStep /\ Registered # {}
        /\ Len(EntriesOf(master')) = Len(EntriesOf(master)) + 1) =>
          /\ \A r \in Registered :
                master'.out[r] = Append(master.out[r], sent'.last)
          /\ master'.masterReplOffset = master.masterReplOffset + Len(sent'.last)]_vars

(***************************************************************************)
(* Properties of the follower's offset and replies (SpecFollow).           *)
(***************************************************************************)
\* The step is replica r's data handler running, in the streaming stage, on
\* what Delivered(r) holds; Readable(r) is the buffer its parser works on.
IsStreamingStep(r) ==
    /\ Len(master'.out[r]) < Len(master.out[r])
    /\ slave[r].handshakeStep = 5
Delivered(r) == Chunk(master.out[r], Len(master.out[r]) - Len(master'.out[r]))
Readable(r) == slave[r].masterBuffer \o ToLowerCase(Delivered(r))
RECURSIVE RawLength(_)
RawLength(frames) ==
    IF frames = <<>> THEN 0 ELSE Len(Head(frames)[2]) + RawLength(Tail(frames))
IsGetAck(args) ==
    /\ Len(args) = 3
    /\ ToLowerCase(args[1]) = ToLowerCase(W_REPLCONF)
    /\ ToLowerCase(args[2]) = ToLowerCase(W_GETACK)
    /\ args[3] = Star
\* what the step appended to the replica's side of the master socket
WrittenBy(r) == SubSeq(s2m'[r], Len(s2m[r]) + 1, Len(s2m'[r]))
\* the offsets of the ACK frames among the segments written
AckOffsets(written) ==
    LET acks == SelectSeq(written, IsAck) IN
    [i \in DOMAIN acks |-> AckOffset(acks[i])]
\* The offsets of the GETACK frames among those read by a replica whose
\* masterOffset was offset: the bytes read before each of them, with the
\* GETACK frame itself when inclusive.
RECURSIVE GetAckOffsets(_, _, _)
GetAckOffsets(frames, offset, inclusive) ==
    IF frames = <<>> THEN <<>>
    ELSE LET n == Len(Head(frames)[2]) IN
         (IF ~IsGetAck(Head(frames)[1]) THEN <<>>
          ELSE IF inclusive THEN <<offset + n>> ELSE <<offset>>)
         \o GetAckOffsets(Tail(frames), offset + n, inclusive)

\* C15: the offset in the ACK a follower writes for a REPLCONF GETACK * is
\* the length of all frames it has read from the master socket up to and
\* including that GETACK frame.
C15_AckIncludesGetAck ==
    [][\A r \in Replicas :
          IsStreamingStep(r) =>
             \A request \in {Readable(r)}, written \in {WrittenBy(r)} :
                AckOffsets(written) =
                    GetAckOffsets(ParsedFrom(request, 0), slave[r].masterOffset, TRUE)]_vars

\* the frames streamed to replica r so far, and those of them delivered
StreamedTo(r) ==
    LET IsTo(e) == e.to = r
        es == SelectSeq(sent.script, IsTo)
    IN [i \in DOMAIN es |-> <<Parse(es[i].frame, 0).args, es[i].frame>>]
DeliveredTo(r) ==
    SubSeq(StreamedTo(r), 1, Len(StreamedTo(r)) - Len(master.out[r]))

\* C16 (state part): a replica in the streaming stage has a masterOffset
\* equal to the bytes of the frames streamed to it and delivered.
C16_OffsetIsBytesRead ==
    \A r \in Replicas :
       (slave[r].handshakeStep = 5 /\ StreamedTo(r) # <<>>) =>
          slave[r].masterOffset = RawLength(DeliveredTo(r))

\* C16 (step part): in the streaming stage a data event advances
\* masterOffset by the raw length of every frame read, whatever its verb,
\* a step that is no data event of the replica leaves it unchanged, and the
\* ACK written for a GETACK carries the length of the frames read before it.
C16_StreamingStep ==
    \A r \in Replicas :
       slave[r].handshakeStep = 5 =>
          IF IsStreamingStep(r)
          THEN \A request \in {Readable(r)}, written \in {WrittenBy(r)} :
                  \A frames \in {ParsedFrom(request, 0)} :
                     /\ slave'[r].masterOffset =
                           slave[r].masterOffset + RawLength(frames)
                     /\ AckOffsets(written) =
                           GetAckOffsets(frames, slave[r].masterOffset, FALSE)
          ELSE slave'[r].masterOffset = slave[r].masterOffset

\* C16: the follower's masterOffset counts exactly the raw bytes of the
\* frames parsed from the master socket, and the ACK for a GETACK is the sum
\* of the raw lengths of the frames processed before that GETACK.
C16_OffsetCountsEveryFrame == [](C16_OffsetIsBytesRead) /\ [][C16_StreamingStep]_vars

\* C16 witness: SET foo bar (31 bytes), PING (14 bytes) and GETACK were
\* streamed to r1 and read; r1 has written REPLCONF ACK 45.
C16_Witness ==
    /\ [i \in DOMAIN sent.script |-> sent.script[i].frame] =
          <<Request(<<W_SET, T_foo, T_bar>>), Request(<<W_PING>>), GetAckRequest>>
    /\ Len(Request(<<W_SET, T_foo, T_bar>>)) = 31
    /\ sent.script[1].to = "r1"
    /\ master.out["r1"] = <<>>
    /\ slave["r1"].masterOffset = 82
    /\ \E i \in DOMAIN s2m["r1"] :
          IsAck(s2m["r1"][i]) /\ AckOffset(s2m["r1"][i]) = 45

\* C17: in the streaming stage the follower writes to the master socket
\* only for a REPLCONF GETACK * frame, and then one REPLCONF ACK frame with
\* its masterOffset; GET, INFO, SET and PING frames produce no bytes.
C17_OnlyAcksWritten ==
    [][\A r \in Replicas :
          IsStreamingStep(r) =>
             \A request \in {Readable(r)}, written \in {WrittenBy(r)} :
                \A offsets \in {GetAckOffsets(ParsedFrom(request, 0),
                                               slave[r].masterOffset, FALSE)} :
                   written =
                       [i \in DOMAIN offsets |->
                           SlaveHandleReplconf([slave[r] EXCEPT !.masterOffset = offsets[i]])]]_vars

(***************************************************************************)
(* Properties of the follower's handshake (SpecHandshake).                 *)
(***************************************************************************)
\* the four handshake messages of each follower, and its stage as a number
SlaveMessages == <<PingRequest, ListeningPortRequest, CapaRequest, PsyncRequest>>
ReplicaMessages ==
    <<GetStringArray(<<ToLowerCase(W_PING)>>),
      GetStringArray(<<W_REPLCONF, T_listening, SlavePort>>),
      GetStringArray(<<W_REPLCONF, T_capa, T_psync2>>),
      GetStringArray(<<W_PSYNC, <<"?">>, <<"-", "1">>>>)>>
StageNumber(stage) ==
    CASE stage = St_PING -> 1 [] stage = St_REPLCONF1 -> 2 [] stage = St_REPLCONF2 -> 3
      [] stage = St_PSYNC -> 4 [] stage = St_SYNCDONE -> 5

\* the step delivers an answer to follower f; the answer
IsAnswerTo(f) ==
    /\ Len(sent'.script) = Len(sent.script) + 1
    /\ sent'.script[Len(sent'.script)].to = f
LastAnswer == sent'.script[Len(sent'.script)].frame
IsFullResync(data) == StartsWith(data, FullResyncLine)

\* A data event in stage number stage, leading to stage2, in which the
\* follower wrote the segments written and its applied writes went from
\* applied to applied2, follows the handshake: the stage stays or moves to
\* the next one; the next message is written when the expected reply comes,
\* and only then; any other answer changes and writes nothing; no write is
\* applied unless the FULLRESYNC reply has come.
HandshakeStep(stage, stage2, data, written, applied, applied2, messages) ==
    LET expected == IF stage = 1 THEN CreateSimpleString(T_PONG)
                    ELSE CreateSimpleString(T_OK)
    IN
    /\ stage2 \in {stage, stage + 1}
    /\ stage <= 3 =>
          /\ applied2 = applied
          /\ IF data = expected
             THEN stage2 = stage + 1 /\ written = <<messages[stage + 1]>>
             ELSE stage2 = stage /\ written = <<>>
    /\ (stage = 4 /\ ~IsFullResync(data)) =>
          stage2 = stage /\ written = <<>> /\ applied2 = applied

\* Each handshake message has been written once, in order, each after the
\* stage before it was left.
MessagesOnce(stage, out, messages) ==
    /\ SubSeq(out, 1, Min(stage, 4)) = SubSeq(messages, 1, Min(stage, 4))
    /\ \A i \in (Min(stage, 4) + 1)..Len(out) : out[i] \notin Range(messages)

C18_MessagesOnce ==
    /\ \A r \in Replicas :
          MessagesOnce(slave[r].handshakeStep, s2m[r], SlaveMessages)
    /\ MessagesOnce(StageNumber(replica.stage), replica.out, ReplicaMessages)

C18_Step ==
    /\ \A r \in Replicas :
          IsAnswerTo(r) =>
             HandshakeStep(slave[r].handshakeStep, slave'[r].handshakeStep,
                           LastAnswer, WrittenBy(r),
                           slave[r].hApplied, slave'[r].hApplied, SlaveMessages)
    /\ IsAnswerTo(ReplicaJs) =>
          HandshakeStep(StageNumber(replica.stage), StageNumber(replica'.stage),
                        LastAnswer,
                        SubSeq(replica'.out, Len(replica.out) + 1, Len(replica'.out)),
                        replica.cache, replica'.cache, ReplicaMessages)

\* C18: both followers (SlaveServer.performHandshake and replicaConnection)
\* go through PING, REPLCONF listening-port, REPLCONF capa, PSYNC and
\* streaming in that order; each message is written once, after the
\* expected reply to the one before; an unexpected answer leaves the stage
\* unchanged and writes nothing; no write is applied before the FULLRESYNC
\* reply has come.
C18_HandshakeForwardOnly == [](C18_MessagesOnce) /\ [][C18_Step]_vars

(***************************************************************************)
(* Properties of closed connections (SpecClose).                           *)
(***************************************************************************)
OpenReplicas == {r \in Registered : IsOpen(r)}

\* C19 (state part): a replica whose connection has closed has no record.
C19_NoRecordOfClosed == \A r \in Replicas : ~IsOpen(r) => r \notin Registered

\* C19 (step part): nothing is written to a replica whose connection has
\* closed, and a WAIT handled while masterReplOffset is 0 is answered with
\* the number of replicas whose connection is open.
C19_ClosedIgnored ==
    /\ \A r \in Replicas : ~IsOpen(r) => master'.out[r] = master.out[r]
    /\ (IsWaitStep /\ master.masterReplOffset = 0) =>
          \A c \in Clients :
             master'.out[c] =
                 Append(master.out[c], CreateInteger(Cardinality(OpenReplicas)))

\* C19: when a replica's connection closes its record is removed from the
\* master: WAIT does not count it and no propagated write or GETACK is
\* written to it.
C19_ClosedReplicaRemoved == [](C19_NoRecordOfClosed) /\ [][C19_ClosedIgnored]_vars

\* C20 (state part): no timer is armed for a WAIT whose client connection
\* has closed.
C20_NoTimerOfClosed ==
    (master.wait.present /\ ~IsOpen(master.wait.socket)) => ~master.wait.timeout

\* C20 (step part): nothing is written to a client whose connection has
\* closed, whether a timer fires or an ACK arrives.
C20_NoReplyToClosed ==
    \A c \in Clients : ~IsOpen(c) => master'.out[c] = master.out[c]

\* C20: when a client's connection closes while its WAIT is pending, the
\* waiter is dropped: its timer is cancelled and no reply is written for it
\* afterwards.
C20_ClosedWaiterDropped == [](C20_NoTimerOfClosed) /\ [][C20_NoReplyToClosed]_vars


(***************************************************************************)
(* Reading streams: two clients append to the stream s and send XREAD      *)
(* BLOCK; the first also sends XREAD, XRANGE, GET and TYPE.  sent.script   *)
(* records every read request with the store and the length of the         *)
(* client's replies at the time it was sent.  The timer of an XREAD BLOCK  *)
(* is armed after the statement of handleXread that throws, so that no     *)
(* timer ever exists.                                                      *)
(***************************************************************************)
MaxStreamAdds == 2
Readers == {"c1", "c2"}
MaxStreamReads == 2
T_k == <<"k">>
T_v == <<"v">>
Dollar == <<"$">>
MissingKey == <<"t">>
ReaderAddIds == {<<"1", "-", "1">>, <<"1", "0", "-", "0">>}
ReadStartIds == {<<"0", "-", "0">>, <<"1", "-", "1">>}
BlockMillis == {<<"0">>, <<"1", "0", "0">>}
RangeBounds == {<<Dash, <<"+">>>>, <<<<"1">>, <<"2">>>>}

ReaderXadd(c) ==
    /\ sent.xadds < MaxStreamAdds
    /\ \E id \in ReaderAddIds :
          LET args == <<W_XADD, StreamKey, id, T_k, T_v>> IN
          /\ ClientSends(c, Request(args))
          /\ sent' = [sent EXCEPT !.xadds = @ + 1, !.last = Request(args)]

\* A read request of client c with the arguments args
ReaderSends(c, args) ==
    /\ ClientSends(c, Request(args))
    /\ sent' = [sent EXCEPT !.reads = @ + 1, !.last = Request(args),
                            !.script = Append(@, [to |-> c, frame |-> args,
                                                  before |-> Len(master.out[c]),
                                                  store |-> master.dataStore])]

ReaderXread(c) ==
    /\ sent.reads < MaxStreamReads
    /\ \E id \in ReadStartIds : ReaderSends(c, <<W_XREAD, W_STREAMS, StreamKey, id>>)

ReaderXreadBlock(c) ==
    /\ sent.reads < MaxStreamReads
    /\ \E ms \in BlockMillis, id \in {<<"0", "-", "0">>, Dollar} :
       ReaderSends(c, <<W_XREAD, W_BLOCK, ms, W_STREAMS, StreamKey, id>>)

ReaderXrange(c) ==
    /\ sent.reads < MaxStreamReads
    /\ \E key \in {StreamKey, MissingKey}, b \in RangeBounds :
       ReaderSends(c, <<W_XRANGE, key, b[1], b[2]>>)

ReaderGet(c) ==
    /\ sent.reads < MaxStreamReads
    /\ \E verb \in {W_GET, W_TYPE} : ReaderSends(c, <<verb, StreamKey>>)

NextXread ==
    \/ \E c \in Readers : ReaderXadd(c)
    \/ \E c \in Clients : ReaderXread(c)
    \/ \E c \in Readers : ReaderXreadBlock(c)
    \/ \E c \in Clients : ReaderXrange(c)
    \/ \E c \in Clients : ReaderGet(c)

\* The leader with the connections of both clients open
InitXread ==
    /\ master = [MasterInit EXCEPT
                     !.clientBuffers = [c \in Conns \cup Readers |-> <<>>],
                     !.out = [c \in Conns \cup Readers |-> <<>>]]
    /\ slave = [r \in Replicas |-> SlaveInit]
    /\ s2m = [r \in Replicas |-> <<PingRequest>>]
    /\ now = StartTime
    /\ replica = ReplicaInit
    /\ sent = [sets |-> 0, waits |-> 0, xadds |-> 0, reads |-> 0, ticks |-> 0,
               last |-> <<>>, script |-> <<>>, left |-> <<>>, emitted |-> <<>>]

SpecXread == InitXread /\ [][NextXread]_vars


(***************************************************************************)
(* XREAD BLOCK                                                             *)
(***************************************************************************)
\* The XREAD BLOCK requests sent so far: <<XREAD, BLOCK, ms, STREAMS, key, id>>
IsBlockRequest(q) == q.frame[1] = W_XREAD /\ q.frame[2] = W_BLOCK
BlockRequests == {i \in DOMAIN sent.script : IsBlockRequest(sent.script[i])}
BlockMs(q) == ParseInt(q.frame[3])
BlockKey(q) == q.frame[5]
BlockStart(q) == q.frame[6]
\* What the master has written to the sender of q since q was sent
RepliesSince(q) == SubSeq(master.out[q.to], q.before + 1, Len(master.out[q.to]))
\* The entries of the stream of q after the ID start, in the store map
Matching(map, q, start) == GetStreamAfter(map, <<BlockKey(q)>>, <<start>>)
\* reply answers q with the first entries of the stream after the ID start
AnswersWith(reply, q, start) ==
    LET m == Matching(master.dataStore, q, start) IN
    /\ m # <<>>
    /\ \E n \in 1..Len(m[1][2]) :
          reply = GetXreadResponse(<<<<BlockKey(q), SubSeq(m[1][2], 1, n)>>>>)

\* C21: an XREAD BLOCK with an explicit start ID stays with a running server,
\* and once its stream holds an entry with an ID greater than the start ID
\* (at registration or after a later XADD) the waiter has been answered on
\* its connection with such entries.
C21_XaddWakesWaiter ==
    \A i \in BlockRequests :
       LET q == sent.script[i] IN
       BlockStart(q) # Dollar =>
          /\ ~master.crashed
          /\ Matching(master.dataStore, q, BlockStart(q)) # <<>> =>
                \E j \in DOMAIN RepliesSince(q) :
                   AnswersWith(RepliesSince(q)[j], q, BlockStart(q))

\* C22: an XREAD BLOCK with the start ID $ registers a waiter without error:
\* the server keeps running and holds a waiter for the sender whose start ID
\* is the ID of the last entry the stream had when the request was sent, or
\* 0-0 for a missing or empty stream, until that waiter is answered.
LastIdOf(map, key) ==
    IF key \in DOMAIN map /\ Len(map[key].value) > 0
    THEN ObjGet(map[key].value[Len(map[key].value)], IdName)
    ELSE <<"0", "-", "0">>
C22_DollarRegistersWaiter ==
    \A i \in BlockRequests :
       LET q == sent.script[i]
           start == LastIdOf(q.store, BlockKey(q))
       IN
       BlockStart(q) = Dollar =>
          /\ ~master.crashed
          /\ \/ /\ master.block.present
                /\ master.block.socket = q.to
                /\ master.block.streamKeys = <<BlockKey(q)>>
                /\ master.block.startIds = <<start>>
             \/ \E j \in DOMAIN RepliesSince(q) :
                   AnswersWith(RepliesSince(q)[j], q, start)

\* C23: an XREAD BLOCK waits in a running server: while its stream holds no
\* entry after its start ID and it has no answer, the server holds its
\* waiter, with a timer armed exactly if the ms argument is not 0; a null
\* bulk string is written to its sender only for an ms argument above 0.
C23_TimeoutAnswersNull ==
    \A i \in BlockRequests :
       LET q == sent.script[i]
           start == IF BlockStart(q) = Dollar THEN LastIdOf(q.store, BlockKey(q))
                    ELSE BlockStart(q)
           nulls == {j \in DOMAIN RepliesSince(q) : RepliesSince(q)[j] = NullBulkString}
       IN
       /\ ~master.crashed
       /\ Cardinality(nulls) <= 1
       /\ BlockMs(q) = 0 => nulls = {}
       /\ (Matching(master.dataStore, q, start) = <<>> /\ nulls = {}) =>
             /\ master.block.present /\ ~master.block.isDone
             /\ master.block.socket = q.to
             /\ master.block.timeout <=> BlockMs(q) # 0

\* C24: every client whose XREAD BLOCK has no answer yet has a waiter of its
\* own in a running server, also while another client's XREAD BLOCK waits.
C24_WaiterPerConnection ==
    \A i \in BlockRequests :
       LET q == sent.script[i] IN
       /\ ~master.crashed
       /\ RepliesSince(q) = <<>> =>
             master.block.present /\ master.block.socket = q.to
                /\ ~master.block.isDone

(***************************************************************************)
(* XRANGE, GET and TYPE on a stream                                        *)
(***************************************************************************)
\* The last read request sent, and the reply to it
LastRead == sent.script[Len(sent.script)]
LastReadIs(verb) ==
    /\ sent.script # <<>>
    /\ sent.last = Request(LastRead.frame)
    /\ LastRead.frame[1] = verb
HoldsStream(map, key) == key \in DOMAIN map /\ map[key].type = "stream"

\* The bounds of XRANGE as (milliseconds, sequence) pairs; Top stands for
\* the largest number.
Top == 1000
RangeStart(start) ==
    IF start = Dash THEN <<0, 0>> ELSE <<IdMillis(start), IdSequence(start)>>
RangeEnd(end) ==
    IF end = <<"+">> THEN <<Top, Top>>
    ELSE <<IdMillis(end), IF Len(Split(end)) < 2 THEN Top ELSE IdSequence(end)>>
PairLeq(a, b) == a[1] < b[1] \/ (a[1] = b[1] /\ a[2] <= b[2])
RECURSIVE EntriesBetween(_, _, _)
EntriesBetween(entries, start, end) ==
    IF entries = <<>> THEN <<>>
    ELSE LET id == ObjGet(Head(entries), IdName)
             p == <<IdMillis(id), IdSequence(id)>>
         IN (IF PairLeq(RangeStart(start), p) /\ PairLeq(p, RangeEnd(end))
             THEN <<EntryPair(Head(entries))>> ELSE <<>>)
            \o EntriesBetween(Tail(entries), start, end)

\* C25: XRANGE k start end on an existing stream is answered, on a running
\* server, with exactly the entries whose (milliseconds, sequence) lies
\* between the two bounds, in the order of the stream.
C25_XrangeReturnsRange ==
    (LastReadIs(W_XRANGE) /\ HoldsStream(LastRead.store, LastRead.frame[2])) =>
       LET q == LastRead
           expected == EntriesBetween(q.store[q.frame[2]].value, q.frame[3], q.frame[4])
       IN
       /\ ~master.crashed
       /\ expected # <<>> =>
             RepliesSince(q) =
                <<CreateArray([i \in DOMAIN expected |-> EncodeEntry(expected[i])])>>

\* C26: GET k on a key that holds a stream is answered with the null bulk
\* string and leaves the store as it was; TYPE k is answered +stream.
C26_GetOfStreamIsNull ==
    /\ (LastReadIs(W_GET) /\ HoldsStream(LastRead.store, LastRead.frame[2])) =>
          /\ RepliesSince(LastRead) = <<NullBulkString>>
          /\ master.dataStore = LastRead.store
    /\ (LastReadIs(W_TYPE) /\ HoldsStream(LastRead.store, LastRead.frame[2])) =>
          /\ RepliesSince(LastRead) = <<CreateSimpleString(T_stream)>>
          /\ master.dataStore = LastRead.store

\* C26, the part that holds: TYPE of a stream is +stream, and neither GET nor
\* TYPE changes the store.
C26_TypeOfStream ==
    /\ (LastReadIs(W_TYPE) /\ HoldsStream(LastRead.store, LastRead.frame[2])) =>
          RepliesSince(LastRead) = <<CreateSimpleString(T_stream)>>
    /\ (LastReadIs(W_GET) \/ LastReadIs(W_TYPE)) => master.dataStore = LastRead.store

(***************************************************************************)
(* A client of the follower: SlaveServer's own listener.  The client sends *)
(* SET and GET frames to the follower r1, whole or in two chunks.          *)
(***************************************************************************)
\* processClientBuffer of SlaveServer
RECURSIVE SlaveClientParseLoop(_, _, _, _, _)
SlaveClientParseLoop(sl, socket, request, cursor, t) ==
    LET p == Parse(request, cursor) IN
    IF Len(p.args) = 0
    THEN [sl EXCEPT !.clientBuffers[socket] = GetRemainingRequest(request, p.cursor)]
    ELSE LET h == SlaveHandleCommand(sl, <<>>, p.args, p.currentRequest, t)
             sl1 == [h.sl EXCEPT !.out[socket] = @ \o h.wr]
         IN IF sl1.crashed THEN sl1
            ELSE SlaveClientParseLoop(sl1, socket, request, p.cursor, t)

SlaveProcessClientBuffer(sl, socket, t) ==
    SlaveClientParseLoop(sl, socket, sl.clientBuffers[socket], 0, t)

\* the data event of a client socket of the follower
SlaveClientOnData(sl, socket, data, t) ==
    SlaveProcessClientBuffer([sl EXCEPT !.clientBuffers[socket] = @ \o data], socket, t)

MaxFollowerFrames == 3
Follower == "r1"
FollowerSetFrames ==
    {Request(<<W_SET, <<"a">>, <<"B">>>>), SetPxFrame,
     Request(<<W_SET, ExpiryKey, <<"w">>>>)}
FollowerGetFrames == {GetFrame, Request(<<W_GET, <<"a">>>>)}

\* The client sends a frame: it arrives whole, or its first n characters
\* arrive and the rest follows in a second data event.
FollowerReceives(c, frame) ==
    /\ ~slave[Follower].crashed
    /\ \E n \in {5, Len(frame)} :
          slave' = [slave EXCEPT ![Follower] =
                       SlaveClientOnData(
                           SlaveClientOnData(@, c, SubSeq(frame, 1, n), now),
                           c, SubSeq(frame, n + 1, Len(frame)), now)]
    /\ sent' = [sent EXCEPT !.last = frame,
                            !.script = Append(@, [to |-> Follower, frame |-> frame,
                                                  before |-> Len(slave[Follower].out[c]),
                                                  at |-> now])]
    /\ UNCHANGED <<master, s2m, now, replica>>

FollowerClientSet(c) ==
    /\ Len(sent.script) < MaxFollowerFrames
    /\ \E frame \in FollowerSetFrames : FollowerReceives(c, frame)
FollowerClientGet(c) ==
    /\ Len(sent.script) < MaxFollowerFrames
    /\ \E frame \in FollowerGetFrames : FollowerReceives(c, frame)

NextFollowerClient ==
    \/ \E c \in Clients : FollowerClientSet(c)
    \/ \E c \in Clients : FollowerClientGet(c)
    \/ Tick

SpecFollowerClient == Init /\ [][NextFollowerClient]_vars

\* What the follower has written to the client since the last frame was sent
FollowerReplies(c) ==
    SubSeq(slave[Follower].out[c], sent.script[Len(sent.script)].before + 1,
           Len(slave[Follower].out[c]))
\* The last frame sent is a SET, and no time has passed since
LastFrameIsSet ==
    /\ sent.script # <<>>
    /\ sent.last \in FollowerSetFrames
    /\ sent.script[Len(sent.script)].at = now

\* C28: a SET that a client sends to the follower is stored there and is
\* answered +OK on the client's connection.
C28_FollowerAnswersSet ==
    \A c \in Clients :
       LastFrameIsSet =>
          LET args == Parse(sent.last, 0).args
              g == Get(slave[Follower].dataStore, args[2], now)
          IN
          /\ g.found /\ g.value = args[3]
          /\ FollowerReplies(c) = <<CreateSimpleString(T_OK)>>

\* C28, the part that holds: the SET is stored on the follower.
C28_FollowerStoresSet ==
    LastFrameIsSet =>
       LET args == Parse(sent.last, 0).args
           g == Get(slave[Follower].dataStore, args[2], now)
       IN g.found /\ g.value = args[3]

(***************************************************************************)
(* The order of replies on a connection (SpecRepl)                         *)
(***************************************************************************)
\* C27: replies on a client's connection come in the order of its commands:
\* while the client's WAIT has no reply yet, the next reply written to the
\* client is the reply of that WAIT, an integer, whatever the client sent
\* after it.
C27_RepliesInOrder ==
    [][\A c \in Clients :
          (/\ master.wait.present /\ ~master.wait.isDone
           /\ master.wait.socket = c
           /\ Len(master'.out[c]) > Len(master.out[c])) =>
             /\ master'.wait.isDone \/ master'.wait # master.wait
             /\ Head(master'.out[c][Len(master.out[c]) + 1]) = ":"]_vars

(***************************************************************************)
(* Encoder and RequestParser, round trip: a list of arguments is encoded   *)
(* with createArray over createBulkString, the frame is parsed, and parse  *)
(* is called once more.  sent.script is the list, sent.left the frame,     *)
(* sent.emitted what the calls of parse returned.                          *)
(***************************************************************************)
MaxArgs == 3
TenChars == <<"0", "1", "2", "3", "4", "5", "6", "7", "8", "9">>
ArgTexts == {<<>>, <<"a">>, CRLF, <<"$", "1">>, <<"*", "1", CR, LF, "$">>, TenChars}
ArgLists ==
    UNION {[1..n -> ArgTexts] : n \in 1..MaxArgs}
       \cup {[i \in 1..10 |-> IF i = 10 THEN TenChars ELSE <<"a">>]}

InitRoundTrip ==
    /\ master = MasterInit
    /\ slave = [r \in Replicas |-> SlaveInit]
    /\ s2m = [r \in Replicas |-> <<PingRequest>>]
    /\ now = StartTime
    /\ replica = ReplicaInit
    /\ \E args \in ArgLists :
          sent = [sets |-> 0, waits |-> 0, xadds |-> 0, reads |-> 0, ticks |-> 0,
                  last |-> <<>>, script |-> args, left |-> <<>>, emitted |-> <<>>]

\* Encoder.createArray(args.map(Encoder.createBulkString))
EncodeArgs ==
    /\ sent.left = <<>>
    /\ sent' = [sent EXCEPT
                   !.left = CreateArray([i \in DOMAIN sent.script |->
                                           CreateBulkString(sent.script[i])])]
    /\ UNCHANGED <<master, slave, s2m, now, replica>>

\* new RequestParser(frame).parse(), with what getRemainingRequest returns
ParseFrame ==
    /\ sent.left # <<>> /\ sent.emitted = <<>>
    /\ LET p == Parse(sent.left, 0) IN
       sent' = [sent EXCEPT
                   !.emitted = <<[args |-> p.args, cursor |-> p.cursor,
                                  currentRequest |-> p.currentRequest,
                                  rest |-> GetRemainingRequest(sent.left, p.cursor)]>>]
    /\ UNCHANGED <<master, slave, s2m, now, replica>>

\* parse() once more on the same parser
ParseAgain ==
    /\ Len(sent.emitted) = 1
    /\ LET p == Parse(sent.left, sent.emitted[1].cursor) IN
       sent' = [sent EXCEPT
                   !.emitted = Append(@, [args |-> p.args, cursor |-> p.cursor,
                                          currentRequest |-> p.currentRequest,
                                          rest |-> GetRemainingRequest(sent.left, p.cursor)])]
    /\ UNCHANGED <<master, slave, s2m, now, replica>>

NextRoundTrip == EncodeArgs \/ ParseFrame \/ ParseAgain

SpecRoundTrip == InitRoundTrip /\ [][NextRoundTrip]_vars

\* C29: the first parse of the frame returns exactly the list of arguments
\* that was encoded, its raw slice is the whole frame and nothing remains;
\* the second parse returns no request and leaves the cursor where it was.
C29_RoundTrip ==
    /\ Len(sent.emitted) >= 1 =>
          /\ sent.emitted[1].args = sent.script
          /\ sent.emitted[1].currentRequest = sent.left
          /\ sent.emitted[1].cursor = Len(sent.left)
          /\ sent.emitted[1].rest = <<>>
    /\ Len(sent.emitted) = 2 =>
          /\ sent.emitted[2].args = <<>>
          /\ sent.emitted[2].currentRequest = <<>>
          /\ sent.emitted[2].rest = <<>>

\* C29 witness: both parses are done for a list that holds the empty
\* argument, an argument that is "\r\n", and one of ten characters (a
\* two-digit length).
C29_Witness ==
    /\ Len(sent.emitted) = 2
    /\ sent.script = <<<<>>, CRLF, TenChars>>
    /\ sent.emitted[1].args = sent.script

\* C29 witness for a list of ten arguments (a two-digit count)
C29_WitnessTenArgs ==
    /\ Len(sent.emitted) = 2
    /\ Len(sent.script) = 10
    /\ sent.emitted[1].args = sent.script

(***************************************************************************)
(* WAIT and masterReplOffset (SpecRepl)                                    *)
(***************************************************************************)
\* A pending WAIT gets its reply in this step.
WaitResolved == master.wait.present /\ ~master.wait.isDone /\ master'.wait.isDone

\* C30: outside the handling of a SET, masterReplOffset changes only in a
\* step that resolves a pending WAIT, and then by the length of that WAIT's
\* frame; the step that handles a WAIT leaves it unchanged and writes to a
\* replica nothing but REPLCONF GETACK *.
C30_Step ==
       /\ IsWaitStep =>
             /\ master'.masterReplOffset = master.masterReplOffset
             /\ \A r \in Replicas :
                   \/ master'.out[r] = master.out[r]
                   \/ master'.out[r] = Append(master.out[r], GetAckRequest)
       /\ (~IsWaitStep /\ ~IsSetStep) =>
             /\ master'.masterReplOffset =
                   master.masterReplOffset
                      + (IF WaitResolved THEN Len(master.wait.request) ELSE 0)
             /\ WaitResolved => \A r \in Replicas : master'.out[r] = master.out[r]
C30_WaitAccounting == [][C30_Step]_vars

\* C30 for WAITs that do not overlap: the same while the current WAIT was
\* registered with no other WAIT pending and no timer of an earlier one armed.
C30_SoleWaitAccounting ==
    [][(~master'.hOverlap /\ master.staleTimers = 0) => C30_Step]_vars


(***************************************************************************)
(* Acknowledgements: the connections r1 and r2 send PSYNC and REPLCONF ACK *)
(* on their own account, at any time, while a client sends SET and WAIT.   *)
(* What the leader writes to them is not read.  sent.reads counts the      *)
(* acknowledgements sent.                                                  *)
(***************************************************************************)
MaxAcks == 2
AckTexts == {<<"0">>, <<"9", "9">>}
AckRequest(n) ==
    CreateArray(<<CreateBulkString(W_REPLCONF), CreateBulkString(W_ACK),
                  CreateBulkString(n)>>)

PeerPsync(r) ==
    /\ ~master.crashed
    /\ r \notin Range(master.replicas)
    /\ master' = MasterOnData(master, r, PsyncRequest, now)
    /\ UNCHANGED <<slave, s2m, now, replica, sent>>

PeerAck(r) ==
    /\ ~master.crashed
    /\ sent.reads < MaxAcks
    /\ \E n \in AckTexts :
          /\ master' = MasterOnData(master, r, AckRequest(n), now)
          /\ sent' = [sent EXCEPT !.reads = @ + 1, !.last = AckRequest(n)]
    /\ UNCHANGED <<slave, s2m, now, replica>>

NextAck ==
    \/ \E c \in Clients : ClientSet(c)
    \/ \E c \in Clients : ClientWait(c)
    \/ \E r \in Replicas : PeerPsync(r)
    \/ \E r \in Replicas : PeerAck(r)
    \/ WaitTimeout
    \/ StaleWaitTimeout

SpecAck == Init /\ [][NextAck]_vars

IsAckStep == sent'.reads = sent.reads + 1

\* C31: a REPLCONF ACK that the leader reads while no WAIT was ever
\* registered, or while the last WAIT has its reply, raises no error, writes
\* nothing to any connection and leaves masterReplOffset, the replicas, the
\* WAIT record and the store as they were.
C31_AckWithoutWaitTolerated ==
    [][(IsAckStep /\ (~master.wait.present \/ master.wait.isDone)) =>
          /\ ~master'.crashed
          /\ master'.out = master.out
          /\ master'.masterReplOffset = master.masterReplOffset
          /\ master'.replicas = master.replicas
          /\ master'.dataStore = master.dataStore
          /\ master'.wait = master.wait]_vars

\* C31, the half that holds: an ACK read after the last WAIT was resolved
\* changes nothing in the leader.
C31_AckAfterResolvedWait ==
    [][(IsAckStep /\ master.wait.present /\ master.wait.isDone) =>
          master' = master]_vars


(***************************************************************************)
(* The follower's reading of the PSYNC reply (SpecRepl)                    *)
(***************************************************************************)
\* C32: the follower's handler for data from the master always terminates,
\* and a follower that has read all of the PSYNC reply (the FULLRESYNC line
\* and the RDB transfer, in one chunk or in two) is in the streaming stage.
C32_FullResyncAnyChunking ==
    \A r \in Replicas :
       /\ ~slave[r].hung
       /\ (r \in Registered /\ master.out[r] = <<>>) => slave[r].handshakeStep = 5


(***************************************************************************)
(* RDBParser: the length encoding.  A buffer is a sequence of bytes        *)
(* (0..255) and the cursor counts from 0.  sent.script is the buffer,      *)
(* sent.emitted what readLengthEncoding returned for it.                   *)
(***************************************************************************)
\* readByte, and read4Bytes = buffer.readUInt32LE(cursor)
ReadByte(buffer, cursor) == buffer[cursor + 1]
Read4Bytes(buffer, cursor) ==
    buffer[cursor + 1] + 256 * buffer[cursor + 2] + 65536 * buffer[cursor + 3]
       + 16777216 * buffer[cursor + 4]

\* readLengthEncoding from the cursor on, with the cursor after it
ReadLengthEncoding(buffer, cursor) ==
    LET firstByte == ReadByte(buffer, cursor)
        twoBits == firstByte \div 64
    IN
    IF twoBits = 0
    THEN [type |-> "length", value |-> firstByte % 64, cursor |-> cursor + 1]
    ELSE IF twoBits = 1
    THEN [type |-> "length",
          value |-> (firstByte % 64) * 256 + ReadByte(buffer, cursor + 1),
          cursor |-> cursor + 2]
    ELSE IF twoBits = 2
    THEN [type |-> "length", value |-> Read4Bytes(buffer, cursor + 1),
          cursor |-> cursor + 5]
    ELSE [type |-> "format", value |-> firstByte % 64, cursor |-> cursor + 1]

FirstBytes == {0, 63, 64, 65, 127, 128, 129, 192}
NextBytes == {0, 1, 127}
RdbBuffers ==
    {<<b>> \o rest : b \in FirstBytes, rest \in [1..4 -> NextBytes]}

InitRdbLength ==
    /\ master = MasterInit
    /\ slave = [r \in Replicas |-> SlaveInit]
    /\ s2m = [r \in Replicas |-> <<PingRequest>>]
    /\ now = StartTime
    /\ replica = ReplicaInit
    /\ \E buffer \in RdbBuffers :
          sent = [sets |-> 0, waits |-> 0, xadds |-> 0, reads |-> 0, ticks |-> 0,
                  last |-> <<>>, script |-> buffer, left |-> <<>>, emitted |-> <<>>]

\* new RDBParser(buffer).readLengthEncoding()
DecodeLength ==
    /\ sent.emitted = <<>>
    /\ sent' = [sent EXCEPT !.emitted = <<ReadLengthEncoding(sent.script, 0)>>]
    /\ UNCHANGED <<master, slave, s2m, now, replica>>

NextRdbLength == DecodeLength

SpecRdbLength == InitRdbLength /\ [][NextRdbLength]_vars

\* The next four bytes as a big-endian unsigned integer
BigEndian4(buffer, cursor) ==
    16777216 * buffer[cursor + 1] + 65536 * buffer[cursor + 2]
       + 256 * buffer[cursor + 3] + buffer[cursor + 4]

\* C33: a length whose first byte has the top bits 10 is the next four bytes
\* read big-endian; with the top bits 01 it is the low six bits of the first
\* byte followed by the next byte; with 00 it is the low six bits.
C33_LengthDecoding ==
    sent.emitted # <<>> =>
       LET buffer == sent.script
           top == buffer[1] \div 64
           got == sent.emitted[1]
       IN
       /\ top = 2 => got.type = "length" /\ got.value = BigEndian4(buffer, 1)
       /\ top = 1 => got.type = "length"
                     /\ got.value = (buffer[1] % 64) * 256 + buffer[2]
       /\ top = 0 => got.type = "length" /\ got.value = buffer[1] % 64

\* C33, the part that holds: the lengths of six and of fourteen bits.
C33_ShortLengths ==
    (sent.emitted # <<>> /\ sent.script[1] \div 64 \in {0, 1}) =>
       /\ sent.emitted[1].type = "length"
       /\ sent.emitted[1].value =
             IF sent.script[1] \div 64 = 0 THEN sent.script[1] % 64
             ELSE (sent.script[1] % 64) * 256 + sent.script[2]


\* A step in which the leader writes the reply of the WAIT record
IsWaitReplyStep == master'.hWaitReplies = master.hWaitReplies + 1

\* C34: the integer replied to a WAIT never exceeds the number of replicas
\* registered when the reply is written: a replica counts at most once for
\* one WAIT, also when the ACK it sent for an earlier GETACK arrives while
\* a later WAIT is pending.
C34_WaitReplyAtMostReplicas ==
    [][IsWaitReplyStep =>
          master'.wait.numOfAckReplicas <= Len(master'.replicas)]_vars


\* Every SET the client sent was executed after r registered: r attached
\* while masterReplOffset was 0.
AttachedAtZero(r) == Len(master.hWrites[r]) = sent.sets
NoWaitPending == ~master.wait.present \/ master.wait.isDone

\* C35: for a replica that attached at repl_offset 0 and has processed every
\* frame written to it, the follower's master_offset equals the leader's
\* repl_offset whenever no WAIT is pending.
C35_OffsetsInStep ==
    \A r \in Replicas :
       (CaughtUp(r) /\ AttachedAtZero(r) /\ NoWaitPending) =>
          slave[r].masterOffset = master.masterReplOffset

\* C35, its last clause: such a follower's offset never exceeds the leader's.
C35_FollowerNeverAhead ==
    \A r \in Replicas :
       (CaughtUp(r) /\ AttachedAtZero(r) /\ NoWaitPending) =>
          slave[r].masterOffset <= master.masterReplOffset


(***************************************************************************)
(* XADD with explicit IDs and one field, whose name may be id.             *)
(***************************************************************************)
FieldIds == {<<"1", "-", "1">>, <<"2", "-", "1">>, <<"9", "-", "1">>}
FieldNames == {<<"f">>, IdName}
FieldValues == {<<"0", "-", "1">>, <<"5", "-", "5">>}
XaddFieldFrame(id, name, value) == Request(<<W_XADD, StreamKey, id, name, value>>)

ClientXaddField(c) ==
    /\ sent.xadds < MaxXadds
    /\ \E id \in FieldIds, name \in FieldNames, value \in FieldValues :
          /\ ClientSends(c, XaddFieldFrame(id, name, value))
          /\ sent' = [sent EXCEPT !.xadds = @ + 1,
                                  !.last = XaddFieldFrame(id, name, value)]

NextXaddField == \E c \in Clients : ClientXaddField(c)

SpecXaddField == Init /\ [][NextXaddField]_vars

\* the field name of the XADD of this step
RequestedField == Parse(sent'.last, 0).args[4]

\* C36: an XADD with an explicit ID that appends an entry stores and returns
\* the requested ID, whatever the field is named (id included).
C36_XaddIdIgnoresFields ==
    [][(IsXaddStep /\ Len(EntriesOf(master')) = Len(EntriesOf(master)) + 1) =>
          /\ LastId(master') = RequestedId
          /\ \E c \in Clients :
                master'.out[c] = Append(master.out[c], CreateBulkString(RequestedId))]_vars

\* C36, for the field names other than id: the stored and returned ID is
\* the requested one.
C36_PlainFieldKeepsId ==
    [][(/\ IsXaddStep /\ RequestedField # IdName
        /\ Len(EntriesOf(master')) = Len(EntriesOf(master)) + 1) =>
          LastId(master') = RequestedId]_vars


\* The two writes of the reply to PSYNC
IsFullResyncLine(w) ==
    /\ Len(w) > Len(T_FULLRESYNC)
    /\ SubSeq(w, 1, Len(T_FULLRESYNC) + 1) = <<"+">> \o T_FULLRESYNC
    /\ SubSeq(w, Len(w) - 1, Len(w)) = CRLF
RdbPayload == <<"$">> \o NumText(EmptyRdbByteLength) \o CRLF \o EmptyRdbText
ResyncWritten(written) ==
    /\ Len(written) >= 2
    /\ IsFullResyncLine(written[1])
    /\ written[2] = RdbPayload

\* C37: whatever the leader has written to a replica's connection starts
\* with the FULLRESYNC line and the RDB payload, a registered replica has
\* been written both, and a SET handled while a replica is registered is
\* written to it.  (In SpecAck nothing consumes master.out, which is then
\* all that was written to a connection.)
C37_ResyncBeforeWrites ==
    [][/\ \A r \in Replicas :
             (master'.out[r] # <<>> \/ r \in Range(master'.replicas)) =>
                ResyncWritten(master'.out[r])
       /\ IsSetStep =>
             \A r \in Registered :
                master'.out[r] = Append(master.out[r], sent'.last)]_vars

\* A registered replica was written a SET and a GETACK after the two writes
\* of the PSYNC reply, while the other peer never sent PSYNC.
C37_Witness ==
    \E r \in Registered :
       /\ ResyncWritten(master.out[r])
       /\ Len(master.out[r]) >= 4
       /\ master.out[r][3] \in SetFrames
       /\ GetAckRequest \in Range(master.out[r])
       /\ \E q \in Replicas \ Registered : master.out[q] = <<>>


\* The replies of a rejected XADD
XaddErrors == {CreateSimpleError(ErrXaddZero), CreateSimpleError(ErrXaddSmall)}
\* The step is an XADD that the leader answered with one of them on c
IsRejectedXadd(c) ==
    /\ IsXaddStep
    /\ Len(master'.out[c]) = Len(master.out[c]) + 1
    /\ master'.out[c][Len(master'.out[c])] \in XaddErrors

\* C38: a rejected XADD writes its error reply and changes nothing else: the
\* store (no key is created, no entry added), masterReplOffset, the
\* replicas, the WAIT record and the XREAD BLOCK record stay as they were.
C38_RejectedXaddChangesNothing ==
    [][\A c \in Clients :
          IsRejectedXadd(c) =>
             master' = [master EXCEPT
                           !.out[c] = Append(@, master'.out[c][Len(master'.out[c])])]]_vars

\* An XADD was rejected for its ID not being above the stream's top ID.
C38_Witness ==
    /\ sent.xadds >= 2 /\ Len(EntriesOf(master)) = 1
    /\ \E c \in Clients :
          /\ Len(master.out[c]) = sent.xadds
          /\ master.out[c][Len(master.out[c])] = CreateSimpleError(ErrXaddSmall)

\* An XADD with the ID 0-0 was rejected while the key did not exist.
C38_WitnessMissingKey ==
    /\ sent.xadds = 1 /\ StreamKey \notin DOMAIN master.dataStore
    /\ \E c \in Clients : master.out[c] = <<CreateSimpleError(ErrXaddZero)>>


(***************************************************************************)
(* Commands that read: a client sends PING, ECHO, GET, TYPE, KEYS, INFO,   *)
(* CONFIG GET and XRANGE, and a peer the two REPLCONF of the handshake,    *)
(* between SETs, WAITs and PSYNCs.  sent.ticks counts them.                *)
(***************************************************************************)
MaxMeta == 1
MetaFrames ==
    {PingRequest,
     Request(<<<<"E", "C", "H", "O">>, <<"x">>>>),
     Request(<<W_GET, <<"a">>>>),
     Request(<<W_TYPE, <<"a">>>>),
     Request(<<<<"K", "E", "Y", "S">>, Star>>),
     Request(<<<<"I", "N", "F", "O">>, <<"r", "e", "p", "l", "i", "c", "a", "t", "i", "o", "n">>>>),
     Request(<<<<"C", "O", "N", "F", "I", "G">>, W_GET, <<"d", "i", "r">>>>),
     Request(<<W_XRANGE, StreamKey, Dash, <<"+">>>>)}
PeerMetaFrames == {ListeningPortRequest, CapaRequest}

ClientMeta(c) ==
    /\ sent.ticks < MaxMeta
    /\ \E frame \in MetaFrames :
          /\ ClientSends(c, frame)
          /\ sent' = [sent EXCEPT !.ticks = @ + 1, !.last = frame]

PeerMeta(r) ==
    /\ sent.ticks < MaxMeta
    /\ \E frame \in PeerMetaFrames :
          /\ ClientSends(r, frame)
          /\ sent' = [sent EXCEPT !.ticks = @ + 1, !.last = frame]

NextMeta ==
    \/ \E c \in Clients : ClientSet(c)
    \/ \E c \in Clients : ClientWait(c)
    \/ \E r \in Replicas : PeerPsync(r)
    \/ \E c \in Clients : ClientMeta(c)
    \/ \E r \in Replicas : PeerMeta(r)
    \/ WaitTimeout

SpecMeta == Init /\ [][NextMeta]_vars

IsMetaStep == sent'.ticks = sent.ticks + 1
\* the connection the step's frame came in on, for a reading command
MetaSender(c) ==
    IF sent'.last \in PeerMetaFrames THEN c \in Replicas ELSE c \in Clients

\* C39: a step that handles PING, ECHO, GET, TYPE, KEYS, INFO, CONFIG GET,
\* XRANGE or a REPLCONF of the handshake leaves masterReplOffset, the
\* replicas and the WAIT record unchanged and writes to no connection but
\* its sender's; masterReplOffset never decreases, and it changes only in
\* the step of a SET or in a step that writes the reply of a WAIT.
C39_ReadsLeaveReplicationAlone ==
    [][/\ IsMetaStep =>
             /\ master'.masterReplOffset = master.masterReplOffset
             /\ master'.replicas = master.replicas
             /\ master'.wait = master.wait
             /\ ~master'.crashed
             /\ \E c \in Conns :
                   /\ MetaSender(c)
                   /\ Len(master'.out[c]) = Len(master.out[c]) + 1
                   /\ \A d \in Conns \ {c} : master'.out[d] = master.out[d]
       /\ master'.masterReplOffset >= master.masterReplOffset
       /\ master'.masterReplOffset # master.masterReplOffset =>
             IsSetStep \/ IsWaitReplyStep]_vars

\* A read was answered while a replica was registered, a WAIT was pending
\* and the offset had grown.
C39_Witness ==
    /\ sent.ticks = 1 /\ sent.last \in MetaFrames
    /\ Registered # {} /\ master.masterReplOffset > 0
    /\ master.wait.present /\ ~master.wait.isDone

====
